---- MODULE Spec2Model ----
(***************************************************************************)
(* glancebar: aggregation and resilience layer.                            *)
(*                                                                         *)
(*  - SpecEvents: per-account provider responses are decoded, merged and   *)
(*    sorted by getUpcomingEvents, and getCurrentOrNextEvent selects one.  *)
(*  - SpecDay: the same pipeline on one concrete day with a timed and an   *)
(*    all-day event, through the provider's time-window query.             *)
(*  - SpecCache: getUsageLimits over the persisted usage-limits cache.     *)
(*  - SpecToken: refreshZohoToken over the persisted Zoho token file.      *)
(*  - SpecGoogle: the "tokens" listener over the Google token files.       *)
(*  - SpecIsolation: getUpcomingEvents with failing accounts.              *)
(*  - SpecTasks: getZohoTasks, its sort and its truncation.                 *)
(*  - SpecRender: outputStatusline, one step per await.                    *)
(*  - SpecHang: the quota fetch and its abort timer, in seconds.           *)
(*                                                                         *)
(* Instants are minutes since the epoch in the event specifications and    *)
(* milliseconds in the cache and token specifications.                     *)
(***************************************************************************)
EXTENDS Integers, Sequences, FiniteSets, TLC

VARIABLES
    \* ---- calendar pipeline ----
    googleItems,   \* googleItems[i]: response.data.items of Google account i
    zohoItems,     \* zohoItems[j]: eventsData.events of Zoho account j
    now,           \* the wall clock read by new Date()
    localOffset,   \* offset of the local time zone from UTC, in minutes
    allEvents,     \* value returned by getUpcomingEvents
    selected,      \* value returned by getCurrentOrNextEvent
    pc,            \* position of the render: "input", "merged", "selected"
    calendars,     \* calendars[i]: the items held by Google account i's calendar
    \* ---- usage-limits cache ----
    cacheFile,     \* content of usage_limits_cache.json, or NoFile
    clock,         \* Date.now(), in ms
    ttlSeconds,    \* config.usageLimitsCacheTTL
    call,          \* the latest getUsageLimits call
    prevCall,      \* the getUsageLimits call before it
    netCalls,      \* requests sent to the quota endpoint so far
    everFetched,   \* some call's fetch has succeeded
    everSaved,     \* some call's cache entry has been written to the file
    nCalls,        \* getUsageLimits calls so far
    \* ---- Zoho token store ----
    tokenFile,     \* content of tokens/zoho_<email>.json, or NoFile
    zohoCredsFile, \* zoho_credentials.json exists
    tcall,         \* the latest refreshZohoToken call
    refreshCalls,  \* requests sent to the Zoho token endpoint so far
    \* ---- Google token store ----
    gFiles,        \* gFiles[path]: content of the token file at path, or NoFile
    gClients,      \* gClients[p]: the OAuth2 client of render process p, or NoCall
    gcall,         \* the latest "tokens" callback
    rotations,     \* access tokens Google has issued so far
    \* ---- per-account failures ----
    acctFail,      \* acctFail[a]: how the fetch of account a fails, or "ok"
    requests,      \* requests[a]: the endpoints contacted for account a in this render
    tasksFrom,     \* <<>> until getZohoTasks returns, then <<the accounts whose tasks it holds>>
    \* ---- Zoho tasks ----
    taskItems,     \* taskItems[j]: data.tasks in the answer to Zoho account j
    maxTasksToShow, \* config.maxTasksToShow
    tasksCall,     \* the latest getZohoTasks call, or NoCall
    \* ---- render ----
    rpc,           \* the await outputStatusline is suspended at, or "start", "done"
    config,        \* the switches of the configuration loadConfig returned
    parts,         \* the parts collected so far
    output,        \* the lines written to the output so far
    query,         \* query[q]: "idle", "running" or what query q settled with
    escaped,       \* an exception has left the body of the try
    \* ---- quota fetch in time ----
    hpc,           \* the await getUsageLimits is suspended at, or "start", "returned"
    timer,         \* the abort timer: "unset", "armed", "cleared" or "fired"
    hclock,        \* seconds since getUsageLimits was called
    endpoint,      \* how the quota endpoint behaves in this exchange
    hcache,        \* the snapshot in the cache file: "none" or "stale"
    hresult,       \* what getUsageLimits returned, "pending" before
    \* ---- account configuration ----
    configFile,    \* the account lists in config.json
    lastCmd,       \* the latest glancebar auth command, or NoCall
    indexed,       \* the accountIndex the latest render gave each account entry
    \* ---- Zoho timestamps ----
    stamps,        \* two timestamps of Zoho events
    decoded,       \* what parseZohoDate made of them, or NoCall
    \* ---- concurrent token refresh ----
    raceMode,      \* "render": the two queries of one render; "invocations"
    raceFile,      \* content of the Zoho token file shared by the callers
    caller,        \* caller[c]: position, token read and answer of caller c
    exchanges,     \* refresh requests sent to the token endpoint so far
    writes,        \* writes made to the token file so far
    \* ---- two runs over caches differing in ttl ----
    twinFiles,     \* twinFiles[r]: the cache file of run r
    twinCall,      \* twinCall[r]: the latest getUsageLimits call of run r
    twinClock,     \* Date.now() of both runs, in ms
    twinCalls,     \* calls made so far in each run
    twinTtl        \* config.usageLimitsCacheTTL of both runs, in seconds

eventVars == <<googleItems, zohoItems, now, localOffset, allEvents, selected, pc, calendars>>
cacheVars == <<cacheFile, clock, ttlSeconds, call, prevCall, netCalls, everFetched, everSaved, nCalls>>
tokenVars == <<tokenFile, zohoCredsFile, tcall, refreshCalls>>
googleVars == <<gFiles, gClients, gcall, rotations>>
coreVars == <<eventVars, cacheVars, tokenVars>>
isolationVars == <<acctFail, requests, tasksFrom>>
taskVars == <<taskItems, maxTasksToShow, tasksCall>>
renderVars == <<rpc, config, parts, output, query, escaped>>
hangVars == <<hpc, timer, hclock, endpoint, hcache, hresult>>
configVars == <<configFile, lastCmd, indexed>>
zoneVars == <<stamps, decoded>>
raceVars == <<raceMode, raceFile, caller, exchanges, writes>>
twinVars == <<twinFiles, twinCall, twinClock, twinCalls, twinTtl>>
laterVars == <<configVars, zoneVars, raceVars, twinVars>>
restVars == <<googleVars, isolationVars, taskVars, renderVars, hangVars, laterVars>>
earlierVars == <<coreVars, googleVars, isolationVars, taskVars, renderVars, hangVars>>
besidesGoogle == <<isolationVars, taskVars, renderVars, hangVars, laterVars>>
besidesTasks == <<googleVars, isolationVars, renderVars, hangVars, laterVars>>
besidesRender == <<googleVars, isolationVars, taskVars, hangVars, laterVars>>
besidesHang == <<googleVars, isolationVars, taskVars, renderVars, laterVars>>
besidesConfig == <<zoneVars, raceVars, twinVars>>
besidesZone == <<configVars, raceVars, twinVars>>
besidesRace == <<configVars, zoneVars, twinVars>>
besidesTwin == <<configVars, zoneVars, raceVars>>
vars == <<coreVars, restVars>>

\* null, an absent file and "no call yet" are records, as every value they are compared with
Null == [null |-> TRUE]
NoFile == [nofile |-> TRUE]
NoCall == [nocall |-> TRUE]

\* an absent body and a raised exception
Missing == [missing |-> TRUE]
Throw == [throw |-> TRUE]

(***************************************************************************)
(* Bounds                                                                  *)
(***************************************************************************)
MaxEvents == 3     \* provider items over all accounts
MaxTime == 2       \* instants 0..MaxTime in SpecEvents
MaxTicks == 5      \* the clock of SpecCache stops after MaxTicks ticks
MaxCalls == 3      \* getUsageLimits calls in one behaviour of SpecCache
MaxSeconds == 8    \* the clock of SpecHang stops after MaxSeconds seconds
MaxTasks == 3      \* tasks in the answers of the task endpoint, and the most shown
MaxRotations == 3  \* access tokens Google issues in one behaviour of SpecGoogle
MaxRefreshes == 3  \* requests to the Zoho token endpoint in one behaviour of SpecToken
MaxDay == 2         \* days of the month the timestamps of SpecZone fall on
MaxTokenTicks == 6 \* the clock of SpecToken stops after MaxTokenTicks ticks

(***************************************************************************)
(* Configuration                                                           *)
(***************************************************************************)
GmailAccounts == <<"g1", "g2">>
ZohoAccounts == <<"z1">>
MinutesPerDay == 24 * 60
LookaheadHours == 8

RECURSIVE IndexOfFrom(_, _, _)
IndexOfFrom(seq, x, i) ==
    IF i > Len(seq) THEN -1
    ELSE IF seq[i] = x THEN i - 1
    ELSE IndexOfFrom(seq, x, i + 1)

\* Array.prototype.indexOf: zero-based position of the first occurrence
IndexOf(seq, x) == IndexOfFrom(seq, x, 1)

getAllAccounts == GmailAccounts \o ZohoAccounts

(***************************************************************************)
(* Date decoding                                                           *)
(***************************************************************************)
\* new Date(date + "T00:00:00"): local midnight of the day
LocalMidnight(day, off) == day * MinutesPerDay - off

\* variant: the end of an all-day event decoded from its start date
ParseGoogleEvent_EndFromStart(item, account, off) ==
    [ id |-> item.uid,
      title |-> IF item.summary = "" THEN "(No title)" ELSE item.summary,
      start |-> IF item.allDay THEN LocalMidnight(item.s, off) ELSE item.s,
      end |-> IF item.allDay THEN LocalMidnight(item.s, off) ELSE item.e,
      isAllDay |-> item.allDay,
      accountEmail |-> account,
      accountIndex |-> IndexOfFrom(GmailAccounts \o ZohoAccounts, account, 1),
      provider |-> "google" ]

\* Google item -> CalendarEvent (the map callback of getGoogleEvents)
ParseGoogleEvent(item, account, off) ==
    [ id |-> item.uid,
      title |-> IF item.summary = "" THEN "(No title)" ELSE item.summary,
      start |-> IF item.allDay THEN LocalMidnight(item.s, off) ELSE item.s,
      end |-> IF item.allDay THEN LocalMidnight(item.e, off) ELSE item.e,
      isAllDay |-> item.allDay,
      accountEmail |-> account,
      accountIndex |-> IndexOf(getAllAccounts, account),
      provider |-> "google" ]

\* parseZohoDate: wall is the UTC reading of the written date and time
parseZohoDate(d, off) ==
    IF d.tz = "Z" THEN d.wall
    ELSE IF d.tz = "+" THEN d.wall - d.off
    ELSE IF d.tz = "-" THEN d.wall + d.off
    ELSE d.wall - off

\* Zoho item -> CalendarEvent (the map callback of getZohoEvents)
ParseZohoEvent(item, idx, off) ==
    [ id |-> item.uid,
      title |-> IF item.title = "" THEN "(No title)" ELSE item.title,
      start |-> parseZohoDate(item.s, off),
      end |-> parseZohoDate(item.e, off),
      isAllDay |-> item.isallday,
      accountEmail |-> ZohoAccounts[idx],
      accountIndex |-> Len(GmailAccounts) + (idx - 1),
      provider |-> "zoho" ]

RECURSIVE FlatMap(_, _, _)
\* results.flat() over the accounts 1..n, op(i) being account i's events
FlatMap(op(_), i, n) ==
    IF i > n THEN <<>> ELSE op(i) \o FlatMap(op, i + 1, n)

MapSeq(op(_), s) == [k \in 1..Len(s) |-> op(s[k])]

getGoogleEvents(items, off) ==
    LET one(i) == MapSeq(LAMBDA it: ParseGoogleEvent(it, GmailAccounts[i], off), items[i])
    IN FlatMap(one, 1, Len(GmailAccounts))

getZohoEvents(items, off) ==
    LET one(j) == MapSeq(LAMBDA it: ParseZohoEvent(it, j, off), items[j])
    IN FlatMap(one, 1, Len(ZohoAccounts))

(***************************************************************************)
(* Merge and sort                                                          *)
(***************************************************************************)
\* variant: the comparator with its operands exchanged
CompareStart_Descending(a, b) == b.start - a.start

\* the comparator (a, b) => a.start.getTime() - b.start.getTime()
CompareStart(a, b) == a.start - b.start

\* x goes behind every element that does not compare greater than it
InsertByStart(x, s) ==
    LET k == Cardinality({i \in 1..Len(s) : CompareStart(s[i], x) <= 0})
    IN SubSeq(s, 1, k) \o <<x>> \o SubSeq(s, k + 1, Len(s))

RECURSIVE SortPrefix(_, _)
SortPrefix(s, n) ==
    IF n = 0 THEN <<>> ELSE InsertByStart(s[n], SortPrefix(s, n - 1))

\* Array.prototype.sort with CompareStart (a stable sort)
SortByStart(s) == SortPrefix(s, Len(s))

\* variant: the Zoho events spread first
ConcatEvents_ZohoFirst(g, z) == z \o g

\* [...googleEvents, ...zohoEvents]
ConcatEvents(g, z) == g \o z

MergeEvents(gItems, zItems, off) ==
    SortByStart(ConcatEvents(getGoogleEvents(gItems, off), getZohoEvents(zItems, off)))

(***************************************************************************)
(* Per-account failures                                                    *)
(***************************************************************************)
\* how the fetch of one account can fail
FetchFailures ==
    { "no_token", "unreadable_token", "no_credentials", "refresh_failed",
      "network", "non_2xx", "bad_body" }

\* a promise settles by resolving with a value or by rejecting
Resolved(v) == [thrown |-> FALSE, value |-> v]
Rejected == [thrown |-> TRUE, value |-> <<>>]

\* body of the try of getGoogleEvents for account i: the events, or the
\* exception it raises
GoogleAccountTry(i, items, off, fail) ==
    IF fail = "ok"
    THEN Resolved(MapSeq(LAMBDA it: ParseGoogleEvent(it, GmailAccounts[i], off), items[i]))
    ELSE IF fail = "no_token" THEN Resolved(<<>>)
    ELSE Rejected

\* body of the try of getZohoEvents for account j; refreshZohoToken answers
\* null without a token file, without credentials and on a failed refresh
ZohoAccountTry(j, items, off, fail) ==
    IF fail = "ok"
    THEN Resolved(MapSeq(LAMBDA it: ParseZohoEvent(it, j, off), items[j]))
    ELSE IF fail \in {"no_token", "no_credentials", "refresh_failed", "non_2xx"}
    THEN Resolved(<<>>)
    ELSE Rejected

\* variant: the exception of an account leaves its callback
CatchAccount_Rethrow(outcome) == outcome

\* catch { return []; }
CatchAccount(outcome) == IF outcome.thrown THEN Resolved(<<>>) ELSE outcome

RECURSIVE PromiseAllFlat(_, _, _)
\* (await Promise.all(promises)).flat(): rejects when a promise rejects
PromiseAllFlat(results, i, n) ==
    IF i > n THEN Resolved(<<>>)
    ELSE LET rest == PromiseAllFlat(results, i + 1, n)
         IN IF results[i].thrown \/ rest.thrown THEN Rejected
            ELSE Resolved(results[i].value \o rest.value)

getGoogleEventsOf(items, off, fail) ==
    PromiseAllFlat([i \in 1..Len(GmailAccounts) |->
                       CatchAccount(GoogleAccountTry(i, items, off, fail[GmailAccounts[i]]))],
                   1, Len(GmailAccounts))

getZohoEventsOf(items, off, fail) ==
    PromiseAllFlat([j \in 1..Len(ZohoAccounts) |->
                       CatchAccount(ZohoAccountTry(j, items, off, fail[ZohoAccounts[j]]))],
                   1, Len(ZohoAccounts))

\* getUpcomingEvents with the accounts failing as fail says
getUpcomingEventsOf(gItems, zItems, off, fail) ==
    LET googleEvents == getGoogleEventsOf(gItems, off, fail)
        zohoEvents == getZohoEventsOf(zItems, off, fail)
    IN IF googleEvents.thrown \/ zohoEvents.thrown THEN Rejected
       ELSE Resolved(SortByStart(ConcatEvents(googleEvents.value, zohoEvents.value)))

\* variant: the refresh exchange is attempted whatever the token file holds
RefreshRequests_Always(fail) == {"token"}

\* the endpoints refreshZohoToken contacts: none without a token file, with
\* an unreadable one or without credentials; the token endpoint when the
\* refresh is attempted and fails; the token is still valid otherwise
RefreshRequests(fail) ==
    IF fail = "refresh_failed" THEN {"token"} ELSE {}

\* the endpoints the callback of getZohoEvents contacts for one account
ZohoEventRequests(fail) ==
    RefreshRequests(fail) \cup
        ( IF fail = "ok" THEN {"calendars", "events"}
          ELSE IF fail \in {"network", "non_2xx", "bad_body"} THEN {"calendars"}
          ELSE {} )

\* the endpoints the loop of getZohoTasks contacts for one account
ZohoTaskRequests(fail) ==
    RefreshRequests(fail) \cup
        ( IF fail \in {"ok", "network", "non_2xx", "bad_body"} THEN {"tasks"} ELSE {} )

\* the endpoints the callback of getGoogleEvents contacts for one account:
\* getGoogleAuthenticatedClient returns null before any request when no
\* token file exists
GoogleEventRequests(fail) ==
    IF fail \in {"ok", "network", "non_2xx", "bad_body"} THEN {"events.list"}
    ELSE IF fail = "refresh_failed" THEN {"token"}
    ELSE {}

\* getZohoTasks: the accounts whose tasks reach allTasks; an account without
\* a token is skipped by continue, a failing one by the catch
ZohoTaskOwners(fail) ==
    { ZohoAccounts[j] : j \in {x \in 1..Len(ZohoAccounts) : fail[ZohoAccounts[x]] = "ok"} }

(***************************************************************************)
(* Zoho tasks                                                              *)
(***************************************************************************)
\* new Date(+parts[2], +parts[1] - 1, +parts[0]): local midnight of the day
\* written DD/MM/YYYY, none when the task carries no dueDate
ParseDueDate(due) == {LocalMidnight(d, 0) : d \in due}

\* task -> ZohoTask (the body of the loop over tasks), read at instant t
ParseTask(task, t) ==
    [ id |-> task.id,
      dueDate |-> ParseDueDate(task.dueDate),
      priority |-> IF task.priority = "" THEN "Normal" ELSE task.priority,
      status |-> IF task.status = "" THEN "Open" ELSE task.status,
      isOverdue |-> \E d \in ParseDueDate(task.dueDate) : d < t ]

\* variant: no task is skipped
Completed_Never(task) == FALSE

\* task.status === "Completed" || task.status === "completed"
Completed(task) == task.status \in {"Completed", "completed"}

RECURSIVE ParseTasks(_, _)
\* the tasks of one answer that are not completed, in the answer's order
ParseTasks(tasks, t) ==
    IF tasks = <<>> THEN <<>>
    ELSE (IF Completed(Head(tasks)) THEN <<>> ELSE <<ParseTask(Head(tasks), t)>>)
            \o ParseTasks(Tail(tasks), t)

\* priorityOrder[priority] || 1 with priorityOrder = {High: 0, Normal: 1, Low: 2}
PriorityRank(priority) ==
    LET order == IF priority = "High" THEN {0}
                 ELSE IF priority = "Normal" THEN {1}
                 ELSE IF priority = "Low" THEN {2}
                 ELSE {}
    IN IF order = {} \/ order = {0} THEN 1 ELSE CHOOSE v \in order : TRUE

DateOf(a) == CHOOSE d \in a.dueDate : TRUE

\* variant: the later due date first
CompareTasks_LatestFirst(a, b) ==
    IF a.isOverdue /\ ~b.isOverdue THEN -1
    ELSE IF ~a.isOverdue /\ b.isOverdue THEN 1
    ELSE IF a.dueDate # {} /\ b.dueDate # {} THEN DateOf(b) - DateOf(a)
    ELSE IF a.dueDate # {} /\ b.dueDate = {} THEN -1
    ELSE IF a.dueDate = {} /\ b.dueDate # {} THEN 1
    ELSE PriorityRank(a.priority) - PriorityRank(b.priority)

\* the comparator of allTasks.sort
CompareTasks(a, b) ==
    IF a.isOverdue /\ ~b.isOverdue THEN -1
    ELSE IF ~a.isOverdue /\ b.isOverdue THEN 1
    ELSE IF a.dueDate # {} /\ b.dueDate # {} THEN DateOf(a) - DateOf(b)
    ELSE IF a.dueDate # {} /\ b.dueDate = {} THEN -1
    ELSE IF a.dueDate = {} /\ b.dueDate # {} THEN 1
    ELSE PriorityRank(a.priority) - PriorityRank(b.priority)

\* x goes in front of the first element that compares greater than it
InsertTask(x, s) ==
    LET later == {i \in 1..Len(s) : CompareTasks(s[i], x) > 0}
        k == IF later = {} THEN Len(s)
             ELSE (CHOOSE i \in later : \A m \in later : i <= m) - 1
    IN SubSeq(s, 1, k) \o <<x>> \o SubSeq(s, k + 1, Len(s))

RECURSIVE SortTasksPrefix(_, _)
SortTasksPrefix(s, n) ==
    IF n = 0 THEN <<>> ELSE InsertTask(s[n], SortTasksPrefix(s, n - 1))

\* Array.prototype.sort with CompareTasks (a stable sort)
SortTasks(s) == SortTasksPrefix(s, Len(s))

\* allTasks.slice(0, n)
SliceTo(s, n) == SubSeq(s, 1, IF n < Len(s) THEN n ELSE Len(s))

\* variant: the list is cut before it is sorted
SortAndSlice_SliceFirst(allTasks, n) == SortTasks(SliceTo(allTasks, n))

\* allTasks.sort(...); return allTasks.slice(0, config.maxTasksToShow)
SortAndSlice(allTasks, n) == SliceTo(SortTasks(allTasks), n)

\* getZohoTasks: the answers of the accounts in order, each read at instant t
getZohoTasks(items, n, t) ==
    LET one(j) == ParseTasks(items[j], t)
    IN SortAndSlice(FlatMap(one, 1, Len(ZohoAccounts)), n)

(***************************************************************************)
(* Selection                                                               *)
(***************************************************************************)
InProgress(e, t) == e.start <= t /\ e.end > t
Upcoming(e, t) == e.start > t

FirstIndex(s, P(_)) ==
    IF \E i \in 1..Len(s) : P(s[i])
    THEN CHOOSE i \in 1..Len(s) : P(s[i]) /\ \A j \in 1..(i - 1) : ~P(s[j])
    ELSE 0

\* variant: the two passes in the other order
CurrentOrNext_NextFirst(events, t) ==
    LET c == FirstIndex(events, LAMBDA e: InProgress(e, t))
        n == FirstIndex(events, LAMBDA e: Upcoming(e, t))
    IN IF n > 0 THEN events[n]
       ELSE IF c > 0 THEN events[c]
       ELSE Null

\* variant: the second pass keeps the last match
CurrentOrNext_LastNext(events, t) ==
    LET c == FirstIndex(events, LAMBDA e: InProgress(e, t))
        up == {i \in 1..Len(events) : Upcoming(events[i], t)}
    IN IF c > 0 THEN events[c]
       ELSE IF up # {} THEN events[CHOOSE i \in up : \A j \in up : j <= i]
       ELSE Null

\* variant: the first pass tests end >= now
CurrentOrNext_EndInclusive(events, t) ==
    LET c == FirstIndex(events, LAMBDA e: e.start <= t /\ e.end >= t)
        n == FirstIndex(events, LAMBDA e: Upcoming(e, t))
    IN IF c > 0 THEN events[c]
       ELSE IF n > 0 THEN events[n]
       ELSE Null

CurrentOrNext(events, t) ==
    LET c == FirstIndex(events, LAMBDA e: InProgress(e, t))
        n == FirstIndex(events, LAMBDA e: Upcoming(e, t))
    IN IF c > 0 THEN events[c]
       ELSE IF n > 0 THEN events[n]
       ELSE Null

(***************************************************************************)
(* Usage limits: the persisted cache and the quota endpoint                *)
(***************************************************************************)
TickMs == 30 * 1000
DefaultTtlMs == 120 * 1000

\* an optional JSON field is the set of its values: {} when absent
OrZero(u) == IF u = {} THEN 0 ELSE CHOOSE x \in u : TRUE
OrEmpty(r) == IF r = {} THEN "" ELSE CHOOSE x \in r : TRUE


Window(u, r) == [utilization |-> u, resets_at |-> r]

\* response bodies of the quota endpoint
Bodies ==
    { [five_hour |-> Window({10}, {"t1"}), seven_day |-> Window({20}, {"t2"})],
      [five_hour |-> Window({90}, {"t1"}), seven_day |-> Window({20}, {"t2"})],
      [five_hour |-> Window({}, {}), seven_day |-> Window({20}, {"t2"})],
      [five_hour |-> Missing, seven_day |-> Window({20}, {"t2"})],
      [five_hour |-> Window({10}, {"t1"}), seven_day |-> Missing] }

FailureKinds == {"no_credential", "timeout", "network_error", "non_2xx", "bad_json"}

\* what one attempt to reach the quota endpoint meets
Outcomes ==
    {[kind |-> k, body |-> Missing] : k \in FailureKinds}
        \cup {[kind |-> "body", body |-> b] : b \in Bodies}

\* variant: the default entry also when the file exists
loadUsageLimitsCache_Default(file) ==
    [data |-> Null, fetchedAt |-> 0, ttl |-> DefaultTtlMs]

\* loadUsageLimitsCache
loadUsageLimitsCache(file) ==
    IF file = NoFile
    THEN [data |-> Null, fetchedAt |-> 0, ttl |-> DefaultTtlMs]
    ELSE file

\* variant: the new entry keeps the stamp of the entry it replaces
saveUsageLimitsCache_KeepStamp(file, entry, writeOk) ==
    IF ~writeOk THEN file
    ELSE IF file = NoFile THEN entry
    ELSE [entry EXCEPT !.fetchedAt = file.fetchedAt]

\* saveUsageLimitsCache: a failing write is swallowed and leaves the file as it was
saveUsageLimitsCache(file, entry, writeOk) ==
    IF writeOk THEN entry ELSE file

\* the request is sent once the local credential has been read
RequestSent(outcome) == outcome.kind # "no_credential"

\* the try block of fetchUsageLimitsFromAPI
FetchBody(outcome) ==
    IF outcome.kind = "no_credential" THEN Null
    ELSE IF outcome.kind \in {"timeout", "network_error"} THEN Throw
    ELSE IF outcome.kind = "non_2xx" THEN Null
    ELSE IF outcome.kind = "bad_json" THEN Throw
    ELSE IF outcome.body.five_hour = Missing \/ outcome.body.seven_day = Missing THEN Null
    ELSE [ five_hour |-> [ utilization |-> OrZero(outcome.body.five_hour.utilization),
                           resets_at |-> OrEmpty(outcome.body.five_hour.resets_at) ],
           seven_day |-> [ utilization |-> OrZero(outcome.body.seven_day.utilization),
                           resets_at |-> OrEmpty(outcome.body.seven_day.resets_at) ] ]

\* fetchUsageLimitsFromAPI: the catch turns every exception into null
fetchUsageLimitsFromAPI(outcome) ==
    IF FetchBody(outcome) = Throw THEN Null ELSE FetchBody(outcome)

\* variant: the TTL is the one stored in the entry
TtlMs_Stored(cache, ttlSec) == cache.ttl

\* config.usageLimitsCacheTTL * 1000
TtlMs(cache, ttlSec) == ttlSec * 1000

\* variant: the age in ms compared with the TTL in seconds
IsFresh_Seconds(cache, nowMs, ttlMs) ==
    cache.data # Null /\ (nowMs - cache.fetchedAt) < ttlMs \div 1000

\* cache.data && (now - cache.fetchedAt) < ttlMs
IsFresh(cache, nowMs, ttlMs) ==
    cache.data # Null /\ (nowMs - cache.fetchedAt) < ttlMs

\* variant: nothing is served once the entry has expired
ServeStale_Nothing(cache) == Null

\* cache.data || null, returned when the fetch failed
ServeStale(cache) == cache.data

\* variant: the entry is rewritten with the call's instant when the fetch failed
getUsageLimits_SaveOnFailure(file, nowMs, ttlSec, outcome, writeOk) ==
    LET cache == loadUsageLimitsCache(file)
        ttlMs == TtlMs(cache, ttlSec)
        freshData == fetchUsageLimitsFromAPI(outcome)
    IN IF IsFresh(cache, nowMs, ttlMs)
       THEN [result |-> cache.data, kind |-> "hit", net |-> 0, file |-> file]
       ELSE IF freshData # Null
       THEN [ result |-> freshData, kind |-> "fetched", net |-> 1,
              file |-> saveUsageLimitsCache(file,
                           [data |-> freshData, fetchedAt |-> nowMs, ttl |-> ttlMs],
                           writeOk) ]
       ELSE [ result |-> ServeStale(cache), kind |-> outcome.kind,
              net |-> IF RequestSent(outcome) THEN 1 ELSE 0,
              file |-> saveUsageLimitsCache(file,
                           [data |-> cache.data, fetchedAt |-> nowMs, ttl |-> ttlMs],
                           writeOk) ]

\* getUsageLimits: the returned value, the requests sent and the file afterwards
getUsageLimits(file, nowMs, ttlSec, outcome, writeOk) ==
    LET cache == loadUsageLimitsCache(file)
        ttlMs == TtlMs(cache, ttlSec)
        freshData == fetchUsageLimitsFromAPI(outcome)
    IN IF IsFresh(cache, nowMs, ttlMs)
       THEN [result |-> cache.data, kind |-> "hit", net |-> 0, file |-> file]
       ELSE IF freshData # Null
       THEN [ result |-> freshData, kind |-> "fetched", net |-> 1,
              file |-> saveUsageLimitsCache(file,
                           [data |-> freshData, fetchedAt |-> nowMs, ttl |-> ttlMs],
                           writeOk) ]
       ELSE [ result |-> ServeStale(cache), kind |-> outcome.kind,
              net |-> IF RequestSent(outcome) THEN 1 ELSE 0, file |-> file ]

(***************************************************************************)
(* Zoho token store                                                        *)
(***************************************************************************)
BufferMs == 300000
TokenTickMs == 150 * 1000

\* an optional number: {} stands for undefined, NaN and the null that
\* JSON.stringify writes for NaN
NumGreater(x, n) == x # {} /\ (CHOOSE v \in x : TRUE) > n

\* Date.now() + (data.expires_in * 1000)
ExpiresAt(nowMs, expiresIn) ==
    IF expiresIn = {} THEN {} ELSE {nowMs + (CHOOSE v \in expiresIn : TRUE) * 1000}

\* bodies of a 2xx answer of the token endpoint to request number n
TokenBodies(n) ==
    { [access_token |-> {n}, expires_in |-> {600}, refresh_token |-> {}],
      [access_token |-> {n}, expires_in |-> {300}, refresh_token |-> {}],
      [access_token |-> {n}, expires_in |-> {600}, refresh_token |-> {"r1"}],
      [access_token |-> {}, expires_in |-> {}, refresh_token |-> {}] }

RefreshFailures == {"network_error", "non_2xx", "bad_json", "write_error"}

RefreshOutcomes(n) ==
    {[kind |-> k, body |-> Missing] : k \in RefreshFailures}
        \cup {[kind |-> "body", body |-> b] : b \in TokenBodies(n)}

\* variant: a token expiring exactly at the end of the buffer counts as valid
StillValid_Inclusive(token, nowMs) ==
    token.expires_at # {} /\ (CHOOSE v \in token.expires_at : TRUE) >= nowMs + BufferMs

\* token.expires_at > Date.now() + 300000
StillValid(token, nowMs) == NumGreater(token.expires_at, nowMs + BufferMs)

\* variant: every field of the answer is spread over the record
UpdatedToken_Spread(token, data, nowMs) ==
    [token EXCEPT !.access_token = data.access_token,
                  !.expires_at = ExpiresAt(nowMs, data.expires_in),
                  !.refresh_token = IF data.refresh_token = {} THEN @
                                    ELSE CHOOSE v \in data.refresh_token : TRUE]

\* { ...token, access_token: data.access_token, expires_at: Date.now() + ... }
UpdatedToken(token, data, nowMs) ==
    [token EXCEPT !.access_token = data.access_token,
                  !.expires_at = ExpiresAt(nowMs, data.expires_in)]

\* refreshZohoToken: the returned value, the requests sent and the file
\* afterwards; laterMs is Date.now() once the answer has been read
refreshZohoToken(file, credsExist, nowMs, laterMs, outcome) ==
    IF file = NoFile
    THEN [result |-> Null, kind |-> "no_token", sent |-> 0, wrote |-> FALSE, file |-> file]
    ELSE IF StillValid(file, nowMs)
    THEN [result |-> file, kind |-> "valid", sent |-> 0, wrote |-> FALSE, file |-> file]
    ELSE IF ~credsExist
    THEN [result |-> Null, kind |-> "no_credentials", sent |-> 0, wrote |-> FALSE, file |-> file]
    ELSE IF outcome.kind \in {"network_error", "non_2xx", "bad_json"}
    THEN [result |-> Null, kind |-> outcome.kind, sent |-> 1, wrote |-> FALSE, file |-> file]
    ELSE IF outcome.kind = "write_error"
    THEN [result |-> Null, kind |-> outcome.kind, sent |-> 1, wrote |-> FALSE, file |-> file]
    ELSE LET updatedToken == UpdatedToken(file, outcome.body, laterMs)
         IN [ result |-> updatedToken, kind |-> "refreshed", sent |-> 1, wrote |-> TRUE,
              file |-> updatedToken ]

(***************************************************************************)
(* Google token store                                                      *)
(***************************************************************************)
\* a token record is a function from the names of its fields to their values
\* { ...currentToken, ...tokens }
ShallowMerge_PayloadOnly(currentToken, tokens) == tokens

ShallowMerge(currentToken, tokens) ==
    [f \in DOMAIN currentToken \cup DOMAIN tokens |->
        IF f \in DOMAIN tokens THEN tokens[f] ELSE currentToken[f]]

\* the new path when a file exists there, otherwise the legacy path
GoogleTokenPath(files) ==
    IF files["new"] # NoFile THEN {"new"}
    ELSE IF files["legacy"] # NoFile THEN {"legacy"}
    ELSE {}

\* getGoogleAuthenticatedClient: null without a token file, otherwise the
\* client, its tokenPath and the token it was given
getGoogleAuthenticatedClient(files) ==
    IF GoogleTokenPath(files) = {} THEN Null
    ELSE LET tokenPath == CHOOSE q \in GoogleTokenPath(files) : TRUE
         IN [tokenPath |-> tokenPath, token |-> files[tokenPath]]

\* the file written by the "tokens" listener of a client
OnTokens(files, client, tokens) ==
    LET currentToken == files[client.tokenPath]
        updatedToken == ShallowMerge(currentToken, tokens)
    IN [files EXCEPT ![client.tokenPath] = updatedToken]

\* the tokens Google grants to authorization number n
GrantedGoogleToken(n) ==
    [access_token |-> n, refresh_token |-> n, expiry_date |-> n]

\* payloads of the "tokens" event for access token number n
RotationPayloads(n) ==
    { [access_token |-> n, expiry_date |-> n],
      [access_token |-> n, expiry_date |-> n, refresh_token |-> n],
      [access_token |-> n, expiry_date |-> n, id_token |-> n] }

(***************************************************************************)
(* Idle values of the variable groups a specification does not use         *)
(***************************************************************************)
EventIdle ==
    /\ googleItems = [i \in 1..Len(GmailAccounts) |-> <<>>]
    /\ zohoItems = [j \in 1..Len(ZohoAccounts) |-> <<>>]
    /\ calendars = [i \in 1..Len(GmailAccounts) |-> <<>>]
    /\ now = 0
    /\ localOffset = 0
    /\ allEvents = <<>>
    /\ selected = Null
    /\ pc = "input"

CacheIdle ==
    /\ cacheFile = NoFile
    /\ clock = 0
    /\ ttlSeconds = 0
    /\ call = NoCall
    /\ prevCall = NoCall
    /\ netCalls = 0
    /\ everFetched = FALSE
    /\ everSaved = FALSE
    /\ nCalls = 0

TokenIdle ==
    /\ tokenFile = NoFile
    /\ zohoCredsFile = TRUE
    /\ tcall = NoCall
    /\ refreshCalls = 0

GoogleIdle ==
    /\ gFiles = [p \in {"new", "legacy"} |-> NoFile]
    /\ gClients = [p \in 1..2 |-> NoCall]
    /\ gcall = NoCall
    /\ rotations = 0

IsolationIdle ==
    /\ acctFail = [a \in {} |-> "ok"]
    /\ requests = [a \in {} |-> {}]
    /\ tasksFrom = <<>>

TaskIdle ==
    /\ taskItems = [j \in 1..Len(ZohoAccounts) |-> <<>>]
    /\ maxTasksToShow = 0
    /\ tasksCall = NoCall

Queries == {"usage", "events", "tasks"}

RenderIdle ==
    /\ rpc = "start"
    /\ config = Null
    /\ parts = <<>>
    /\ output = <<>>
    /\ query = [q \in Queries |-> "idle"]
    /\ escaped = FALSE

HangIdle ==
    /\ hpc = "start"
    /\ timer = "unset"
    /\ hclock = 0
    /\ endpoint = "answers"
    /\ hcache = "none"
    /\ hresult = "pending"

ConfigIdle ==
    /\ configFile = [accounts |-> <<>>, gmailAccounts |-> <<>>, zohoAccounts |-> <<>>]
    /\ lastCmd = NoCall
    /\ indexed = <<>>

ZoneIdle ==
    /\ stamps = <<>>
    /\ decoded = NoCall

RaceIdle ==
    /\ raceMode = "render"
    /\ raceFile = NoFile
    /\ caller = <<>>
    /\ exchanges = 0
    /\ writes = 0

TwinIdle ==
    /\ twinFiles = <<>>
    /\ twinCall = <<>>
    /\ twinClock = 0
    /\ twinCalls = 0
    /\ twinTtl = 0

LaterIdle ==
    /\ ConfigIdle
    /\ ZoneIdle
    /\ RaceIdle
    /\ TwinIdle

RestIdle ==
    /\ GoogleIdle
    /\ IsolationIdle
    /\ TaskIdle
    /\ RenderIdle
    /\ HangIdle
    /\ LaterIdle

CoreIdle ==
    /\ EventIdle
    /\ CacheIdle
    /\ TokenIdle

(***************************************************************************)
(* SpecEvents: any provider responses, merged and selected from            *)
(***************************************************************************)
ItemCount ==
    LET RECURSIVE Sum(_, _)
        Sum(f, n) == IF n = 0 THEN 0 ELSE Len(f[n]) + Sum(f, n - 1)
    IN Sum(googleItems, Len(GmailAccounts)) + Sum(zohoItems, Len(ZohoAccounts))

Times == 0..MaxTime

InitEvents ==
    /\ googleItems = [i \in 1..Len(GmailAccounts) |-> <<>>]
    /\ zohoItems = [j \in 1..Len(ZohoAccounts) |-> <<>>]
    /\ calendars = [i \in 1..Len(GmailAccounts) |-> <<>>]
    /\ now \in Times
    /\ localOffset = 0
    /\ allEvents = <<>>
    /\ selected = Null
    /\ pc = "input"
    /\ CacheIdle
    /\ TokenIdle
    /\ RestIdle

\* the events.list call of Google account i returns one more timed item
GoogleReturns(i, s, e) ==
    /\ pc = "input"
    /\ ItemCount < MaxEvents
    /\ googleItems' = [googleItems EXCEPT ![i] =
          Append(@, [uid |-> ItemCount + 1, summary |-> "Event",
                     allDay |-> FALSE, s |-> s, e |-> e])]
    /\ UNCHANGED <<zohoItems, now, localOffset, allEvents, selected, pc, calendars>>
    /\ UNCHANGED <<cacheVars, tokenVars, restVars>>

\* the events call of Zoho account j returns one more item
ZohoReturns(j, s, e) ==
    /\ pc = "input"
    /\ ItemCount < MaxEvents
    /\ zohoItems' = [zohoItems EXCEPT ![j] =
          Append(@, [uid |-> ItemCount + 1, title |-> "Event", isallday |-> FALSE,
                     s |-> [wall |-> s, tz |-> "Z", off |-> 0],
                     e |-> [wall |-> e, tz |-> "Z", off |-> 0]])]
    /\ UNCHANGED <<googleItems, now, localOffset, allEvents, selected, pc, calendars>>
    /\ UNCHANGED <<cacheVars, tokenVars, restVars>>

GetUpcomingEvents ==
    /\ pc = "input"
    /\ allEvents' = MergeEvents(googleItems, zohoItems, localOffset)
    /\ pc' = "merged"
    /\ UNCHANGED <<googleItems, zohoItems, now, localOffset, selected, calendars>>
    /\ UNCHANGED <<cacheVars, tokenVars, restVars>>

GetCurrentOrNextEvent ==
    /\ pc = "merged"
    /\ selected' = CurrentOrNext(allEvents, now)
    /\ pc' = "selected"
    /\ UNCHANGED <<googleItems, zohoItems, now, localOffset, allEvents, calendars>>
    /\ UNCHANGED <<cacheVars, tokenVars, restVars>>

NextEvents ==
    \/ \E i \in 1..Len(GmailAccounts), s \in Times, e \in Times :
          s <= e /\ GoogleReturns(i, s, e)
    \/ \E j \in 1..Len(ZohoAccounts), s \in Times, e \in Times :
          s <= e /\ ZohoReturns(j, s, e)
    \/ GetUpcomingEvents
    \/ GetCurrentOrNextEvent

SpecEvents == InitEvents /\ [][NextEvents]_vars

(***************************************************************************)
(* The events every account returned, in configuration order               *)
(***************************************************************************)
Returned == getGoogleEvents(googleItems, localOffset) \o getZohoEvents(zohoItems, localOffset)

Count(s, x) == Cardinality({i \in 1..Len(s) : s[i] = x})

Range(s) == {s[i] : i \in 1..Len(s)}

IsPermutation(s, t) ==
    /\ Len(s) = Len(t)
    /\ \A x \in Range(s) \cup Range(t) : Count(s, x) = Count(t, x)

\* position of the event's account in the Google-then-Zoho account list
AccountPosition(e) ==
    IF e.provider = "google"
    THEN CHOOSE i \in 1..Len(GmailAccounts) : GmailAccounts[i] = e.accountEmail
    ELSE Len(GmailAccounts)
         + (CHOOSE j \in 1..Len(ZohoAccounts) : ZohoAccounts[j] = e.accountEmail)

\* position of the event in the response of its own account
ResponsePosition(e) ==
    IF e.provider = "google"
    THEN LET its == googleItems[AccountPosition(e)]
         IN CHOOSE k \in 1..Len(its) : its[k].uid = e.id
    ELSE LET its == zohoItems[AccountPosition(e) - Len(GmailAccounts)]
         IN CHOOSE k \in 1..Len(its) : its[k].uid = e.id

\* C1: the list returned by getUpcomingEvents is sorted non-decreasing by
\* start instant and is a permutation of the concatenated per-account lists.
C1_SortedPermutation ==
    pc # "input" =>
        /\ \A i \in 1..(Len(allEvents) - 1) : allEvents[i].start <= allEvents[i + 1].start
        /\ IsPermutation(allEvents, Returned)

C1_Witness ==
    /\ pc = "merged"
    /\ Len(allEvents) = MaxEvents
    /\ allEvents # Returned
    /\ \E i \in 1..(Len(allEvents) - 1) : allEvents[i].start < allEvents[i + 1].start

\* C2: among events of equal start instant, the event of the account that is
\* earlier in the Google-then-Zoho account list comes first, and events of
\* one account keep the order in which the provider returned them.
C2_Stable ==
    pc # "input" =>
        \A i, j \in 1..Len(allEvents) :
            (i < j /\ allEvents[i].start = allEvents[j].start) =>
                \/ AccountPosition(allEvents[i]) < AccountPosition(allEvents[j])
                \/ /\ AccountPosition(allEvents[i]) = AccountPosition(allEvents[j])
                   /\ ResponsePosition(allEvents[i]) < ResponsePosition(allEvents[j])

C2_Witness ==
    /\ pc = "merged"
    /\ \E i, j, k \in 1..Len(allEvents) :
          /\ i < j /\ j < k
          /\ allEvents[i].start = allEvents[j].start
          /\ allEvents[i].provider = "google"
          /\ allEvents[j].provider = "zoho"
          /\ allEvents[k].start > allEvents[j].start
          /\ allEvents[k].accountEmail = GmailAccounts[1]

\* C3: when some event of the list is in progress (start <= now < end), the
\* result is the first such event in list order, never an upcoming event.
C3_FirstInProgress ==
    (pc = "selected" /\ \E i \in 1..Len(allEvents) : InProgress(allEvents[i], now)) =>
        \E i \in 1..Len(allEvents) :
            /\ selected = allEvents[i]
            /\ InProgress(allEvents[i], now)
            /\ \A j \in 1..(i - 1) : ~InProgress(allEvents[j], now)

C3_Witness ==
    /\ pc = "selected"
    /\ Len(allEvents) = 3
    /\ Upcoming(allEvents[3], now)
    /\ InProgress(allEvents[1], now)
    /\ InProgress(allEvents[2], now)
    /\ selected = allEvents[1]

\* C4: with no event in progress and at least one event starting after now,
\* the result is the first event of the sorted list that starts after now,
\* which has the smallest start among those.
C4_EarliestUpcoming ==
    ( /\ pc = "selected"
      /\ \A i \in 1..Len(allEvents) : ~InProgress(allEvents[i], now)
      /\ \E i \in 1..Len(allEvents) : Upcoming(allEvents[i], now) ) =>
        \E i \in 1..Len(allEvents) :
            /\ selected = allEvents[i]
            /\ Upcoming(allEvents[i], now)
            /\ \A j \in 1..(i - 1) : ~Upcoming(allEvents[j], now)
            /\ \A j \in 1..Len(allEvents) :
                  Upcoming(allEvents[j], now) => allEvents[i].start <= allEvents[j].start

C4_Witness ==
    /\ pc = "selected"
    /\ Len(allEvents) = 3
    /\ allEvents[1].end <= now
    /\ Upcoming(allEvents[2], now)
    /\ Upcoming(allEvents[3], now)
    /\ allEvents[2].start < allEvents[3].start
    /\ selected = allEvents[2]

\* C5: when every event has end <= now, or the list is empty, the result is
\* none; no event with end <= now is ever returned.
C5_PastOnlyNone ==
    pc = "selected" =>
        /\ (\A i \in 1..Len(allEvents) : allEvents[i].end <= now) => selected = Null
        /\ selected # Null => selected.end > now

C5_Witness ==
    /\ pc = "selected"
    /\ Len(allEvents) = 2
    /\ \A i \in 1..Len(allEvents) : allEvents[i].end <= now
    /\ allEvents[1].start < allEvents[1].end
    /\ selected = Null

(***************************************************************************)
(* SpecDay: account A holds the timed event "Standup" 10:00-10:30 (local   *)
(* time), account B the all-day event "Holiday" of the same day; the       *)
(* render runs between 10:00 and 10:29 with the default lookahead.         *)
(***************************************************************************)
ScenarioDay == 20 * 1000
StandupStart == 10 * 60
StandupEnd == 10 * 60 + 30
QuarterPast == 10 * 60 + 15
DayOffsets == {0 - 300, 0, 330}

LocalInstant(day, minute, off) == day * MinutesPerDay + minute - off

StandupItem(off) ==
    [ uid |-> 1, summary |-> "Standup", allDay |-> FALSE,
      s |-> LocalInstant(ScenarioDay, StandupStart, off),
      e |-> LocalInstant(ScenarioDay, StandupEnd, off) ]

HolidayItem ==
    [ uid |-> 2, summary |-> "Holiday", allDay |-> TRUE,
      s |-> ScenarioDay, e |-> ScenarioDay + 1 ]

\* calendar.events.list({timeMin, timeMax, singleEvents, orderBy: "startTime"}):
\* the items that end after timeMin and start before timeMax
EventsList(cal, timeMin, timeMax, off) ==
    LET from(it) == IF it.allDay THEN LocalMidnight(it.s, off) ELSE it.s
        to(it) == IF it.allDay THEN LocalMidnight(it.e, off) ELSE it.e
    IN SelectSeq(cal, LAMBDA it: to(it) > timeMin /\ from(it) < timeMax)

InitDay ==
    /\ localOffset \in DayOffsets
    /\ \E a \in 1..Len(GmailAccounts) :
          calendars = [i \in 1..Len(GmailAccounts) |->
                          IF i = a THEN <<StandupItem(localOffset)>> ELSE <<HolidayItem>>]
    /\ \E m \in StandupStart..(StandupEnd - 1) :
          now = LocalInstant(ScenarioDay, m, localOffset)
    /\ googleItems = [i \in 1..Len(GmailAccounts) |-> <<>>]
    /\ zohoItems = [j \in 1..Len(ZohoAccounts) |-> <<>>]
    /\ allEvents = <<>>
    /\ selected = Null
    /\ pc = "input"
    /\ CacheIdle
    /\ TokenIdle
    /\ RestIdle

\* getUpcomingEvents, the provider queries over [now, now + lookahead) included
DayGetUpcomingEvents ==
    /\ pc = "input"
    /\ LET timeMax == now + LookaheadHours * 60
           items == [i \in 1..Len(GmailAccounts) |->
                        EventsList(calendars[i], now, timeMax, localOffset)]
       IN /\ googleItems' = items
          /\ allEvents' = MergeEvents(items, zohoItems, localOffset)
    /\ pc' = "merged"
    /\ UNCHANGED <<zohoItems, now, localOffset, selected, calendars>>
    /\ UNCHANGED <<cacheVars, tokenVars, restVars>>

NextDay ==
    \/ DayGetUpcomingEvents
    \/ GetCurrentOrNextEvent

SpecDay == InitDay /\ [][NextDay]_vars

AtQuarterPast == now = LocalInstant(ScenarioDay, QuarterPast, localOffset)

\* C6 as stated: at 10:15, with "Standup" 10:00-10:30 in one account and the
\* all-day "Holiday" in the other, getCurrentOrNextEvent returns "Standup".
C6_ReturnsStandup ==
    (pc = "selected" /\ AtQuarterPast) => (selected # Null /\ selected.title = "Standup")

\* C6 (amended): in that scenario getCurrentOrNextEvent returns "Holiday",
\* the all-day event, which starts at local midnight, sorts first and is
\* in progress at 10:15.
C6_ReturnsHoliday ==
    (pc = "selected" /\ AtQuarterPast) => (selected # Null /\ selected.title = "Holiday")

C6_Witness ==
    /\ pc = "selected"
    /\ AtQuarterPast
    /\ Len(allEvents) = 2
    /\ allEvents[1].isAllDay
    /\ allEvents[2].title = "Standup"
    /\ allEvents[2].start <= now /\ now < allEvents[2].end
    /\ allEvents[2].accountEmail = GmailAccounts[1]
    /\ selected = allEvents[1]

(***************************************************************************)
(* SpecCache: a sequence of getUsageLimits calls from a fresh install,     *)
(* with any fetch outcome, any outcome of the cache write and a clock      *)
(* that advances between and during the calls.                             *)
(***************************************************************************)
TtlChoices == {60, 120}

InitCache ==
    /\ cacheFile = NoFile
    /\ clock = 0
    /\ ttlSeconds \in TtlChoices
    /\ call = NoCall
    /\ prevCall = NoCall
    /\ netCalls = 0
    /\ everFetched = FALSE
    /\ everSaved = FALSE
    /\ nCalls = 0
    /\ EventIdle
    /\ TokenIdle
    /\ RestIdle

\* one call of getUsageLimits; the fetch, when made, takes dur ticks
GetUsageLimits(outcome, dur, writeOk) ==
    LET r == getUsageLimits(cacheFile, clock, ttlSeconds, outcome, writeOk)
        took == IF r.kind = "hit" THEN 0 ELSE dur
    IN /\ nCalls < MaxCalls
       /\ nCalls' = nCalls + 1
       /\ clock + took * TickMs <= MaxTicks * TickMs
       /\ cacheFile' = r.file
       /\ clock' = clock + took * TickMs
       /\ prevCall' = call
       /\ call' = [ now |-> clock, kind |-> r.kind, net |-> r.net, result |-> r.result,
                    before |-> cacheFile, saved |-> (r.kind = "fetched" /\ writeOk) ]
       /\ netCalls' = netCalls + r.net
       /\ everFetched' = (everFetched \/ r.kind = "fetched")
       /\ everSaved' = (everSaved \/ (r.kind = "fetched" /\ writeOk))
       /\ UNCHANGED ttlSeconds
       /\ UNCHANGED <<eventVars, tokenVars, restVars>>

\* time passes between two renders
Tick ==
    /\ clock + TickMs <= MaxTicks * TickMs
    /\ clock' = clock + TickMs
    /\ UNCHANGED <<cacheFile, ttlSeconds, call, prevCall, netCalls, everFetched, everSaved, nCalls>>
    /\ UNCHANGED <<eventVars, tokenVars, restVars>>

NextCache ==
    \/ \E o \in Outcomes, dur \in 0..1, w \in BOOLEAN : GetUsageLimits(o, dur, w)
    \/ Tick

SpecCache == InitCache /\ [][NextCache]_vars

TwoCalls == call # NoCall /\ prevCall # NoCall

C8_ServeStale ==
    ( /\ call # NoCall
      /\ call.before # NoFile
      /\ call.now - call.before.fetchedAt >= ttlSeconds * 1000
      /\ call.kind \in FailureKinds \cup {"body"} ) =>
        /\ call.result = call.before.data
        /\ call.result # Null
        /\ call.result # Throw

C8_Witness ==
    /\ call # NoCall
    /\ call.before # NoFile
    /\ call.now - call.before.fetchedAt >= 2 * ttlSeconds * 1000
    /\ call.kind = "timeout"
    /\ call.result = call.before.data
    /\ netCalls >= 2

GrantedToken(k) ==
    [ access_token |-> {0}, refresh_token |-> "r0",
      expires_at |-> {k * TokenTickMs}, api_domain |-> "https://www.zohoapis.com" ]

InitToken ==
    /\ tokenFile \in {NoFile} \cup {GrantedToken(k) : k \in 2..4}
    /\ zohoCredsFile \in BOOLEAN
    /\ tcall = NoCall
    /\ refreshCalls = 0
    /\ cacheFile = NoFile
    /\ clock = 0
    /\ ttlSeconds = 0
    /\ call = NoCall
    /\ prevCall = NoCall
    /\ netCalls = 0
    /\ everFetched = FALSE
    /\ everSaved = FALSE
    /\ nCalls = 0
    /\ EventIdle
    /\ RestIdle

\* one call of refreshZohoToken; the exchange, when made, takes dur ticks
RefreshZohoToken(outcome, dur) ==
    LET later == clock + dur * TokenTickMs
        r == refreshZohoToken(tokenFile, zohoCredsFile, clock, later, outcome)
    IN /\ refreshCalls + r.sent <= MaxRefreshes
       /\ r.sent = 0 => dur = 0
       /\ later <= MaxTokenTicks * TokenTickMs
       /\ tokenFile' = r.file
       /\ clock' = later
       /\ refreshCalls' = refreshCalls + r.sent
       /\ tcall' = [ now |-> clock, kind |-> r.kind, sent |-> r.sent, wrote |-> r.wrote,
                     result |-> r.result, before |-> tokenFile,
                     body |-> IF r.kind = "refreshed" THEN outcome.body ELSE Missing,
                     later |-> later ]
       /\ UNCHANGED zohoCredsFile
       /\ UNCHANGED <<cacheFile, ttlSeconds, call, prevCall, netCalls, everFetched, everSaved, nCalls>>
       /\ UNCHANGED <<eventVars, restVars>>

\* time passes between two renders
TokenTick ==
    /\ clock + TokenTickMs <= MaxTokenTicks * TokenTickMs
    /\ clock' = clock + TokenTickMs
    /\ UNCHANGED <<cacheFile, ttlSeconds, call, prevCall, netCalls, everFetched, everSaved, nCalls>>
    /\ UNCHANGED <<eventVars, tokenVars, restVars>>

NextToken ==
    \/ \E o \in RefreshOutcomes(refreshCalls + 1), dur \in 0..1 : RefreshZohoToken(o, dur)
    \/ TokenTick

SpecToken == InitToken /\ [][NextToken]_vars

HadToken == tcall # NoCall /\ tcall.before # NoFile

\* the expiry of the record the call read is more than 5 minutes after now
Beyond(t) == t.before.expires_at # {} /\ \A v \in t.before.expires_at : v > t.now + BufferMs

\* C10 as stated: a token expiring more than 5 minutes after now is
\* returned unchanged with no refresh call and no write; any other token
\* triggers exactly one refresh call, and a successful refresh persists and
\* returns the updated record.
C10_Gating ==
    HadToken =>
        /\ Beyond(tcall) =>
              (tcall.result = tcall.before /\ tcall.sent = 0 /\ ~tcall.wrote
                  /\ tokenFile = tcall.before)
        /\ ~Beyond(tcall) =>
              /\ tcall.sent = 1
              /\ tcall.kind = "refreshed" =>
                    (tcall.wrote /\ tokenFile = tcall.result)

\* C10 (amended): as C10, the exactly-one refresh call holding when
\* zoho_credentials.json can be loaded; without it no refresh call is made
\* and none is returned.
C10_GatingWithCredentials ==
    HadToken =>
        /\ Beyond(tcall) =>
              (tcall.result = tcall.before /\ tcall.sent = 0 /\ ~tcall.wrote
                  /\ tokenFile = tcall.before)
        /\ (~Beyond(tcall) /\ zohoCredsFile) =>
              /\ tcall.sent = 1
              /\ tcall.kind = "refreshed" =>
                    /\ tcall.wrote
                    /\ tokenFile = tcall.result
                    /\ tcall.result.access_token = tcall.body.access_token
        /\ (~Beyond(tcall) /\ ~zohoCredsFile) =>
              (tcall.sent = 0 /\ tcall.result = Null /\ tokenFile = tcall.before)

C10_Witness ==
    /\ HadToken
    /\ zohoCredsFile
    /\ tcall.before.expires_at = {tcall.now + BufferMs}
    /\ tcall.before.access_token = {1}
    /\ tcall.kind = "refreshed"
    /\ tcall.sent = 1
    /\ refreshCalls = 2
    /\ tokenFile = tcall.result
    /\ tokenFile.access_token = {2}
    /\ NumGreater(tokenFile.expires_at, clock + BufferMs)

\* the body of a 2xx answer carries both fields the refresh needs
WellFormed(body) == body.access_token # {} /\ body.expires_in # {}

\* C11: a successful refresh changes only access_token and the expiry of the
\* persisted record; refresh_token and api_domain keep their values, whether
\* or not the answer carries a refresh_token.
C11_OnlyTokenAndExpiry ==
    (HadToken /\ tcall.kind = "refreshed" /\ WellFormed(tcall.body)) =>
        /\ tokenFile.refresh_token = tcall.before.refresh_token
        /\ tokenFile.api_domain = tcall.before.api_domain
        /\ DOMAIN tokenFile = DOMAIN tcall.before
        /\ tokenFile.access_token = tcall.body.access_token
        /\ \A v \in tcall.body.expires_in : tokenFile.expires_at = {tcall.later + v * 1000}
        /\ tcall.result = tokenFile

C11_Witness ==
    /\ HadToken
    /\ tcall.kind = "refreshed"
    /\ tcall.body.refresh_token = {"r1"}
    /\ tcall.body.access_token = {2}
    /\ tokenFile.refresh_token = "r0"
    /\ tokenFile.access_token = {2}
    /\ tcall.before.access_token = {1}
    /\ tokenFile.expires_at # tcall.before.expires_at

\* the call sent a refresh request and the exchange failed: no answer, a
\* non-2xx answer, an unparseable body, or a body without access_token or
\* expires_in
RefreshFailed ==
    /\ HadToken
    /\ tcall.sent = 1
    /\ \/ tcall.kind \in {"network_error", "non_2xx", "bad_json"}
       \/ tcall.kind = "refreshed" /\ ~WellFormed(tcall.body)

\* C12: on any failure of the refresh, refreshZohoToken returns none and the
\* persisted record is exactly the record it was before the call.
C12_FailureLeavesRecord ==
    RefreshFailed => (tcall.result = Null /\ tokenFile = tcall.before)

(***************************************************************************)
(* SpecGoogle: the token file of one Google account, two render processes  *)
(* holding clients for it, token rotations reported to either client, and  *)
(* re-authentication of the account.                                       *)
(***************************************************************************)
InitGoogle ==
    /\ gFiles \in { [p \in {"new", "legacy"} |-> NoFile],
                     [p \in {"new", "legacy"} |->
                         IF p = "new" THEN GrantedGoogleToken(0) ELSE NoFile],
                     [p \in {"new", "legacy"} |->
                         IF p = "legacy" THEN GrantedGoogleToken(0) ELSE NoFile] }
    /\ gClients = [p \in 1..2 |-> NoCall]
    /\ gcall = NoCall
    /\ rotations = 0
    /\ CoreIdle
    /\ IsolationIdle
    /\ TaskIdle
    /\ RenderIdle
    /\ HangIdle
    /\ LaterIdle

\* render process p builds its client for the account
GetGoogleAuthenticatedClient(p) ==
    /\ gClients' = [gClients EXCEPT ![p] = getGoogleAuthenticatedClient(gFiles)]
    /\ UNCHANGED <<gFiles, gcall, rotations>>
    /\ UNCHANGED <<coreVars, besidesGoogle>>

\* the library refreshes the access token of p's client and emits "tokens"
TokensCallback(p, tokens) ==
    /\ gClients[p] \notin {NoCall, Null}
    /\ rotations < MaxRotations
    /\ gFiles' = OnTokens(gFiles, gClients[p], tokens)
    /\ gcall' = [ tokenPath |-> gClients[p].tokenPath, token |-> gClients[p].token,
                  before |-> gFiles[gClients[p].tokenPath], tokens |-> tokens ]
    /\ rotations' = rotations + 1
    /\ UNCHANGED gClients
    /\ UNCHANGED <<coreVars, besidesGoogle>>

\* authenticateGoogleAccount: the granted tokens are written to the new path
AuthenticateGoogleAccount ==
    /\ rotations < MaxRotations
    /\ gFiles' = [gFiles EXCEPT !["new"] = GrantedGoogleToken(rotations + 1)]
    /\ rotations' = rotations + 1
    /\ UNCHANGED <<gClients, gcall>>
    /\ UNCHANGED <<coreVars, besidesGoogle>>

NextGoogle ==
    \/ \E p \in 1..2 : GetGoogleAuthenticatedClient(p)
    \/ \E p \in 1..2, tokens \in RotationPayloads(rotations + 1) : TokensCallback(p, tokens)
    \/ AuthenticateGoogleAccount

SpecGoogle == InitGoogle /\ [][NextGoogle]_vars

\* the record persisted at the path of the latest callback's client
Persisted == gFiles[gcall.tokenPath]

\* C13: every token-rotation callback leaves, at the path of its client,
\* the shallow merge of the record persisted there when the callback ran
\* with the payload: payload fields take the payload's values, every other
\* field keeps its persisted value, and no persisted field is dropped.
C13_MergeOverPersisted ==
    [][ gcall' # gcall =>
          LET before == gFiles[gcall'.tokenPath]
              after == gFiles'[gcall'.tokenPath]
              tokens == gcall'.tokens
          IN /\ DOMAIN after = DOMAIN before \cup DOMAIN tokens
             /\ \A f \in DOMAIN tokens : after[f] = tokens[f]
             /\ \A f \in DOMAIN before \ DOMAIN tokens : after[f] = before[f]
             /\ \A q \in DOMAIN gFiles \ {gcall'.tokenPath} : gFiles'[q] = gFiles[q]
      ]_vars

\* a payload without refresh_token arrives at a client whose file was
\* rewritten, refresh_token included, after the client had read it
C13_Witness ==
    /\ gcall # NoCall
    /\ "refresh_token" \notin DOMAIN gcall.tokens
    /\ gcall.before # gcall.token
    /\ gcall.before["refresh_token"] # gcall.token["refresh_token"]
    /\ Persisted["refresh_token"] = gcall.before["refresh_token"]
    /\ Persisted["access_token"] = 3

(***************************************************************************)
(* SpecIsolation: every account's calendar holds at most one event and     *)
(* every account's fetch succeeds or fails in one of the ways the code     *)
(* meets; getUpcomingEvents aggregates.                                    *)
(***************************************************************************)
\* the items the calendar of the account at position uid would return
GoogleCalendarChoices(uid) ==
    {<<>>} \cup
    { <<[uid |-> uid, summary |-> "Event", allDay |-> FALSE, s |-> t, e |-> t + 1]>>
      : t \in Times }

ZohoCalendarChoices(uid) ==
    {<<>>} \cup
    { <<[uid |-> uid, title |-> "Event", isallday |-> FALSE,
         s |-> [wall |-> t, tz |-> "Z", off |-> 0],
         e |-> [wall |-> t + 1, tz |-> "Z", off |-> 0]]>>
      : t \in Times }

InitIsolation ==
    /\ googleItems \in
          { f \in [1..Len(GmailAccounts) ->
                     UNION {GoogleCalendarChoices(i) : i \in 1..Len(GmailAccounts)}] :
              \A i \in 1..Len(GmailAccounts) : f[i] \in GoogleCalendarChoices(i) }
    /\ zohoItems \in
          { f \in [1..Len(ZohoAccounts) ->
                     UNION {ZohoCalendarChoices(Len(GmailAccounts) + j) : j \in 1..Len(ZohoAccounts)}] :
              \A j \in 1..Len(ZohoAccounts) : f[j] \in ZohoCalendarChoices(Len(GmailAccounts) + j) }
    /\ acctFail \in [Range(getAllAccounts) -> {"ok"} \cup FetchFailures]
    /\ requests = [a \in Range(getAllAccounts) |-> {}]
    /\ tasksFrom = <<>>
    /\ calendars = [i \in 1..Len(GmailAccounts) |-> <<>>]
    /\ now = 0
    /\ localOffset = 0
    /\ allEvents = <<>>
    /\ selected = Null
    /\ pc = "input"
    /\ CacheIdle
    /\ TokenIdle
    /\ GoogleIdle
    /\ TaskIdle
    /\ RenderIdle
    /\ HangIdle
    /\ LaterIdle

\* getUpcomingEvents resolves with the merged events or rejects
GetUpcomingEventsIsolated ==
    LET r == getUpcomingEventsOf(googleItems, zohoItems, localOffset, acctFail)
    IN /\ pc = "input"
       /\ allEvents' = r.value
       /\ pc' = IF r.thrown THEN "rejected" ELSE "merged"
       /\ requests' = [a \in DOMAIN requests |->
                          requests[a] \cup
                              IF a \in Range(GmailAccounts)
                              THEN GoogleEventRequests(acctFail[a])
                              ELSE ZohoEventRequests(acctFail[a])]
       /\ UNCHANGED <<googleItems, zohoItems, now, localOffset, selected, calendars>>
       /\ UNCHANGED <<acctFail, tasksFrom>>
       /\ UNCHANGED <<cacheVars, tokenVars, googleVars, taskVars, renderVars, hangVars, laterVars>>

\* getZohoTasks of the same render, running beside getUpcomingEvents
GetZohoTasksIsolated ==
    /\ tasksFrom = <<>>
    /\ tasksFrom' = <<ZohoTaskOwners(acctFail)>>
    /\ requests' = [a \in DOMAIN requests |->
                       requests[a] \cup
                           IF a \in Range(ZohoAccounts)
                           THEN ZohoTaskRequests(acctFail[a])
                           ELSE {}]
    /\ UNCHANGED acctFail
    /\ UNCHANGED <<eventVars, cacheVars, tokenVars>>
    /\ UNCHANGED <<googleVars, taskVars, renderVars, hangVars, laterVars>>

NextIsolation ==
    \/ GetUpcomingEventsIsolated
    \/ GetZohoTasksIsolated
    \/ GetCurrentOrNextEvent

SpecIsolation == InitIsolation /\ [][NextIsolation]_vars

\* the uids of the items held by the accounts whose fetch does not fail
HealthyUids ==
    UNION { {googleItems[i][k].uid : k \in 1..Len(googleItems[i])} :
              i \in {x \in 1..Len(GmailAccounts) : acctFail[GmailAccounts[x]] = "ok"} }
    \cup
    UNION { {zohoItems[j][k].uid : k \in 1..Len(zohoItems[j])} :
              j \in {x \in 1..Len(ZohoAccounts) : acctFail[ZohoAccounts[x]] = "ok"} }

\* C14: whichever accounts fail, getUpcomingEvents resolves, and its result
\* holds every event of the non-failing accounts exactly once and no event
\* of a failing account.
C14_FailureIsolation ==
    pc # "input" =>
        /\ pc # "rejected"
        /\ {allEvents[k].id : k \in 1..Len(allEvents)} = HealthyUids
        /\ Len(allEvents) = Cardinality(HealthyUids)
        /\ \A k \in 1..Len(allEvents) : acctFail[allEvents[k].accountEmail] = "ok"

\* two of the three accounts fail with an exception while holding events
C14_Witness ==
    /\ pc = "merged"
    /\ acctFail["g1"] = "network"
    /\ acctFail["z1"] = "bad_body"
    /\ acctFail["g2"] = "ok"
    /\ googleItems[1] # <<>>
    /\ zohoItems[1] # <<>>
    /\ Len(allEvents) = 1
    /\ allEvents[1].accountEmail = "g2"

\* the accounts for which no token record is persisted
Tokenless == {a \in DOMAIN acctFail : acctFail[a] = "no_token"}

\* C24: for an account without a persisted token record no endpoint is ever
\* contacted, the account contributes no event and no task, and both
\* queries go on to return what the working accounts hold.
C24_NoTokenNoRequest ==
    \A a \in Tokenless :
        /\ requests[a] = {}
        /\ pc # "rejected"
        /\ pc # "input" =>
              /\ \A k \in 1..Len(allEvents) : allEvents[k].accountEmail # a
              /\ {allEvents[k].id : k \in 1..Len(allEvents)} = HealthyUids
        /\ tasksFrom # <<>> =>
              /\ a \notin tasksFrom[1]
              /\ \A z \in DOMAIN acctFail :
                    (z \in {ZohoAccounts[j] : j \in 1..Len(ZohoAccounts)} /\ acctFail[z] = "ok")
                        => z \in tasksFrom[1]

\* a Google and a Zoho account without token, both with events waiting in
\* their calendars; the remaining account is queried and shown
C24_Witness ==
    /\ Tokenless = {"g1", "z1"}
    /\ acctFail["g2"] = "ok"
    /\ googleItems[1] # <<>>
    /\ zohoItems[1] # <<>>
    /\ pc = "merged"
    /\ tasksFrom = <<{}>>
    /\ requests["g2"] = {"events.list"}
    /\ Len(allEvents) = 1
    /\ allEvents[1].accountEmail = "g2"

(***************************************************************************)
(* SpecTasks: the task endpoint answers with any tasks, getZohoTasks sorts *)
(* and truncates them.                                                     *)
(***************************************************************************)
\* the render runs on day 1 at 10:00
TaskNow == MinutesPerDay + 10 * 60

\* days a task can be due on: two before the render, one after
DueDays == 0..2

TaskCount ==
    LET RECURSIVE Sum(_, _)
        Sum(f, n) == IF n = 0 THEN 0 ELSE Len(f[n]) + Sum(f, n - 1)
    IN Sum(taskItems, Len(ZohoAccounts))

\* the tasks the endpoint can list; an absent field is ""
TaskChoices(id) ==
    { [id |-> id, status |-> "", dueDate |-> due, priority |-> p] :
        due \in {{}} \cup {{d} : d \in DueDays}, p \in {"High", "", "Low", "Urgent"} }
    \cup { [id |-> id, status |-> "Completed", dueDate |-> {}, priority |-> "High"],
            [id |-> id, status |-> "completed", dueDate |-> {0}, priority |-> "High"] }

InitTasks ==
    /\ taskItems = [j \in 1..Len(ZohoAccounts) |-> <<>>]
    /\ maxTasksToShow \in 1..MaxTasks
    /\ tasksCall = NoCall
    /\ CoreIdle
    /\ GoogleIdle
    /\ IsolationIdle
    /\ RenderIdle
    /\ HangIdle
    /\ LaterIdle

\* the task list of Zoho account j holds one more task
ZohoListsTask(j, task) ==
    /\ tasksCall = NoCall
    /\ TaskCount < MaxTasks
    /\ taskItems' = [taskItems EXCEPT ![j] = Append(@, task)]
    /\ UNCHANGED <<maxTasksToShow, tasksCall>>
    /\ UNCHANGED <<coreVars, besidesTasks>>

GetZohoTasks ==
    /\ tasksCall = NoCall
    /\ tasksCall' = [result |-> getZohoTasks(taskItems, maxTasksToShow, TaskNow)]
    /\ UNCHANGED <<taskItems, maxTasksToShow>>
    /\ UNCHANGED <<coreVars, besidesTasks>>

NextTasks ==
    \/ \E j \in 1..Len(ZohoAccounts), task \in TaskChoices(TaskCount + 1) : ZohoListsTask(j, task)
    \/ GetZohoTasks

SpecTasks == InitTasks /\ [][NextTasks]_vars

Shown == tasksCall.result

\* the listed tasks that are not completed
OpenTasks ==
    UNION { {taskItems[j][k] : k \in {x \in 1..Len(taskItems[j]) :
                                        taskItems[j][x].status \notin
                                            {"Completed", "completed"}}} :
            j \in 1..Len(ZohoAccounts) }

Dated(a) == a.dueDate # {}

\* the first two sort keys put a strictly before b: a is overdue and b is
\* not, or they agree on that and a is due earlier or only a has a due date
EarlierClass(a, b, aOverdue, bOverdue) ==
    \/ aOverdue /\ ~bOverdue
    \/ /\ aOverdue = bOverdue
       /\ \/ Dated(a) /\ ~Dated(b)
          \/ \E x \in a.dueDate, y \in b.dueDate : x < y

\* C15: in the returned list every overdue task precedes every non-overdue
\* task, and within one class tasks are in ascending dueDate order with the
\* tasks without dueDate last.
C15_OverdueThenDueDate ==
    tasksCall # NoCall =>
        \A i \in 1..Len(Shown), j \in 1..Len(Shown) :
            i < j => ~EarlierClass(Shown[j], Shown[i], Shown[j].isOverdue, Shown[i].isOverdue)

\* the example: listed as undated High, due day 2 High, due day 0; returned
\* as overdue day 0, day 2, undated
C15_Witness ==
    /\ tasksCall # NoCall
    /\ Len(taskItems[1]) = 3
    /\ taskItems[1][1].dueDate = {} /\ taskItems[1][1].priority = "High"
    /\ taskItems[1][2].dueDate = {2} /\ taskItems[1][2].priority = "High"
    /\ taskItems[1][3].dueDate = {0}
    /\ \A k \in 1..3 : taskItems[1][k].status # "Completed"
    /\ Len(Shown) = 3
    /\ Shown[1].id = 3 /\ Shown[1].isOverdue
    /\ Shown[2].id = 2 /\ ~Shown[2].isOverdue
    /\ Shown[3].id = 1 /\ Shown[3].dueDate = {}

\* the rank the priorities are to have: High, then Normal and every
\* unrecognized priority, then Low
Rank(priority) ==
    IF priority = "High" THEN 0 ELSE IF priority = "Low" THEN 2 ELSE 1

\* C16: two returned tasks with the same overdue flag and the same dueDate,
\* or both without dueDate, stand in the order of their priority rank:
\* High before Normal before Low, an unrecognized priority ranking as Normal.
C16_PriorityBreaksTies ==
    tasksCall # NoCall =>
        \A i \in 1..Len(Shown), j \in 1..Len(Shown) :
            (i < j /\ Shown[i].isOverdue = Shown[j].isOverdue
                   /\ Shown[i].dueDate = Shown[j].dueDate)
                => Rank(Shown[i].priority) <= Rank(Shown[j].priority)

Min(a, b) == IF a < b THEN a ELSE b

Overdue(task) == \E d \in task.dueDate : d * MinutesPerDay < TaskNow

\* C17: the result holds min(maxTasksToShow, n) of the n non-completed
\* tasks, each once, and no omitted task sorts before a kept one: the cut is
\* made on the sorted list.
C17_TruncateAfterSort ==
    tasksCall # NoCall =>
        LET kept == {t \in OpenTasks : \E k \in 1..Len(Shown) : Shown[k].id = t.id}
        IN /\ Len(Shown) = Min(maxTasksToShow, Cardinality(OpenTasks))
           /\ Cardinality(kept) = Len(Shown)
           /\ \A k \in 1..Len(Shown) : \E t \in OpenTasks : t.id = Shown[k].id
           /\ \A o \in OpenTasks \ kept, t \in kept :
                 ~EarlierClass(o, t, Overdue(o), Overdue(t))

\* three open tasks are listed latest first and two are shown: the task
\* listed first is the one left out
C17_Witness ==
    /\ tasksCall # NoCall
    /\ maxTasksToShow = 2
    /\ Len(taskItems[1]) = 3
    /\ Cardinality(OpenTasks) = 3
    /\ taskItems[1][1].dueDate = {}
    /\ taskItems[1][2].dueDate = {2}
    /\ taskItems[1][3].dueDate = {1}
    /\ Len(Shown) = 2
    /\ Shown[1].id = 3
    /\ Shown[2].id = 2

\* the listed tasks the provider reports as completed
DoneTasks ==
    UNION { {taskItems[j][k] : k \in {x \in 1..Len(taskItems[j]) :
                                        taskItems[j][x].status \in
                                            {"Completed", "completed"}}} :
            j \in 1..Len(ZohoAccounts) }

\* C25: no task reported as completed is in the result of getZohoTasks, and
\* completed tasks take no slot: the result is as long as the open tasks
\* and maxTasksToShow allow.
C25_NoCompletedShown ==
    tasksCall # NoCall =>
        /\ \A k \in 1..Len(Shown) :
              /\ Shown[k].status \notin {"Completed", "completed"}
              /\ \A t \in DoneTasks : t.id # Shown[k].id
        /\ Len(Shown) = Min(maxTasksToShow, TaskCount - Cardinality(DoneTasks))

\* an overdue high-priority completed task is listed first, two open tasks
\* after it, and the two slots go to the open tasks
C25_Witness ==
    /\ tasksCall # NoCall
    /\ maxTasksToShow = 2
    /\ Len(taskItems[1]) = 3
    /\ taskItems[1][1].status = "completed"
    /\ taskItems[1][1].dueDate = {0}
    /\ taskItems[1][2].status = "" /\ taskItems[1][2].dueDate = {}
    /\ taskItems[1][3].status = "" /\ taskItems[1][3].dueDate = {2}
    /\ Len(Shown) = 2
    /\ Shown[1].id = 3
    /\ Shown[2].id = 2

(***************************************************************************)
(* SpecRender: one run of outputStatusline, one step per stretch of code   *)
(* between two awaits, with every configuration, stdin content and query   *)
(* result.                                                                 *)
(***************************************************************************)
Fallback == <<"Calendar unavailable">>

\* loadConfig: the file's switches, or DEFAULT_CONFIG when it cannot be read
loadConfig(readable, showUsageLimits, hasAccounts) ==
    IF readable
    THEN [showUsageLimits |-> showUsageLimits, hasAccounts |-> hasAccounts]
    ELSE [showUsageLimits |-> TRUE, hasAccounts |-> FALSE]

\* variant: the catch writes nothing
OnException_Silent(out) == out

\* catch { console.log("Calendar unavailable"); }
OnException(out) == Append(out, Fallback)

\* variant: only the event query is started
StartPair_EventsOnly(q) == [q EXCEPT !["events"] = "running"]

\* Promise.all([getUpcomingEvents(config), getZohoTasks(config)]): both
\* calls are made before the await
StartPair(q) == [q EXCEPT !["events"] = "running", !["tasks"] = "running"]

\* parts.push(x) when x is not null
Push(p, present, x) == IF present THEN Append(p, x) ELSE p

\* the exception leaves the try: the catch runs and the run is over
Catch ==
    /\ output' = OnException(output)
    /\ escaped' = TRUE
    /\ rpc' = "done"
    /\ UNCHANGED <<config, parts, query>>

\* from the system stats to the next await or to the end: q the queries and
\* p the parts so far, reminder whether getRandomReminder gives one
Proceed(q, p, reminder) ==
    LET withReminder == Push(p, reminder, "reminder")
    IN IF config.hasAccounts
       THEN /\ query' = StartPair(q)
            /\ parts' = withReminder
            /\ rpc' = "awaitAll"
            /\ UNCHANGED <<config, output, escaped>>
       ELSE /\ query' = q
            /\ parts' = Push(withReminder, withReminder = <<>>, "No accounts configured")
            /\ output' = Append(output, parts')
            /\ rpc' = "done"
            /\ UNCHANGED <<config, escaped>>

InitRender ==
    /\ RenderIdle
    /\ CoreIdle
    /\ GoogleIdle
    /\ IsolationIdle
    /\ TaskIdle
    /\ HangIdle
    /\ LaterIdle

\* outputStatusline up to await readStdinJson()
Start(readable, showUsageLimits, hasAccounts) ==
    /\ rpc = "start"
    /\ config' = loadConfig(readable, showUsageLimits, hasAccounts)
    /\ rpc' = "awaitStdin"
    /\ UNCHANGED <<parts, output, query, escaped>>
    /\ UNCHANGED <<coreVars, besidesRender>>

\* readStdinJson settles with status: "none" for null, "ok", or "malformed"
\* for JSON whose fields formatSessionInfo cannot format
StdinSettles(status, reminder) ==
    /\ rpc = "awaitStdin"
    /\ IF status = "malformed" THEN Catch
       ELSE LET p == Push(parts, status = "ok", "session")
            IN IF config.showUsageLimits
               THEN /\ query' = [query EXCEPT !["usage"] = "running"]
                    /\ parts' = p
                    /\ rpc' = "awaitUsage"
                    /\ UNCHANGED <<config, output, escaped>>
               ELSE Proceed(query, p, reminder)
    /\ UNCHANGED <<coreVars, besidesRender>>

\* getUsageLimits settles with limits: "none" for null, "ok", or "malformed"
\* for a snapshot formatUsageLimits cannot format
UsageSettles(limits, reminder) ==
    /\ rpc = "awaitUsage"
    /\ query["usage"] = "running"
    /\ IF limits = "malformed" THEN Catch
       ELSE Proceed([query EXCEPT !["usage"] = limits],
                    Push(parts, limits = "ok", "usage"), reminder)
    /\ UNCHANGED <<coreVars, besidesRender>>

\* getUpcomingEvents or getZohoTasks settles with what it found
PairSettles(q, found) ==
    /\ rpc = "awaitAll"
    /\ q \in {"events", "tasks"}
    /\ query[q] = "running"
    /\ query' = [query EXCEPT ![q] = found]
    /\ UNCHANGED <<rpc, config, parts, output, escaped>>
    /\ UNCHANGED <<coreVars, besidesRender>>

\* the code after await Promise.all: both results are formatted and the line
\* is written
JoinAndPrint ==
    /\ rpc = "awaitAll"
    /\ query["events"] \notin {"idle", "running"}
    /\ query["tasks"] \notin {"idle", "running"}
    /\ LET withTasks == Push(parts, query["tasks"] = "some", "tasks")
       IN parts' = IF query["events"] = "some" THEN Append(withTasks, "event")
                   ELSE Push(withTasks, withTasks = <<>>, "No upcoming events")
    /\ output' = Append(output, parts')
    /\ rpc' = "done"
    /\ UNCHANGED <<config, query, escaped>>
    /\ UNCHANGED <<coreVars, besidesRender>>

NextRender ==
    \/ \E readable \in BOOLEAN, showUsageLimits \in BOOLEAN, hasAccounts \in BOOLEAN :
          Start(readable, showUsageLimits, hasAccounts)
    \/ \E status \in {"none", "ok", "malformed"}, reminder \in BOOLEAN :
          StdinSettles(status, reminder)
    \/ \E limits \in {"none", "ok", "malformed"}, reminder \in BOOLEAN :
          UsageSettles(limits, reminder)
    \/ \E q \in {"events", "tasks"}, found \in {"none", "some"} : PairSettles(q, found)
    \/ JoinAndPrint

SpecRender == InitRender /\ [][NextRender]_vars

\* C18: a completed run has written exactly one line, whatever failed; when
\* an exception left the render body that line is "Calendar unavailable";
\* and nothing is written before the run completes.
C18_ExactlyOneLine ==
    /\ rpc = "done" => Len(output) = 1
    /\ rpc # "done" => output = <<>>
    /\ escaped => (rpc = "done" /\ output = <<Fallback>>)

\* the usage snapshot cannot be formatted after the session part was pushed
C18_Witness ==
    /\ rpc = "done"
    /\ escaped
    /\ query["usage"] = "running"
    /\ parts = <<"session">>
    /\ output = <<Fallback>>

TimeoutSeconds == 5

\* cache.data || null
StaleOrNone(cached) == IF cached = "stale" THEN "stale" ELSE "none"

InitHang ==
    /\ hpc = "start"
    /\ timer = "unset"
    /\ hclock = 0
    /\ endpoint \in {"answers", "refuses", "hangs_before_headers", "hangs_in_body"}
    /\ hcache \in {"none", "stale"}
    /\ hresult = "pending"
    /\ CoreIdle
    /\ GoogleIdle
    /\ IsolationIdle
    /\ TaskIdle
    /\ RenderIdle
    /\ LaterIdle

\* getUsageLimits finds no fresh snapshot; fetchUsageLimitsFromAPI arms the
\* timer and sends the request
SendRequest ==
    /\ hpc = "start"
    /\ timer' = "armed"
    /\ hpc' = "awaitHeaders"
    /\ UNCHANGED <<hclock, endpoint, hcache, hresult>>
    /\ UNCHANGED <<coreVars, besidesHang>>

\* the connection fails: fetch rejects, the catch returns null
FetchRejects ==
    /\ hpc = "awaitHeaders"
    /\ endpoint = "refuses"
    /\ hresult' = StaleOrNone(hcache)
    /\ hpc' = "returned"
    /\ UNCHANGED <<timer, hclock, endpoint, hcache>>
    /\ UNCHANGED <<coreVars, besidesHang>>

\* the headers arrive: fetch resolves, the timer is cleared, and a non-2xx
\* answer returns null
HeadersArrive(ok) ==
    /\ hpc = "awaitHeaders"
    /\ endpoint \in {"answers", "hangs_in_body"}
    /\ timer = "armed"
    /\ timer' = "cleared"
    /\ IF ok THEN hpc' = "awaitBody" /\ UNCHANGED hresult
       ELSE hpc' = "returned" /\ hresult' = StaleOrNone(hcache)
    /\ UNCHANGED <<hclock, endpoint, hcache>>
    /\ UNCHANGED <<coreVars, besidesHang>>

\* response.json() settles: a usable body is returned, any other body or a
\* parse error returns the stale snapshot or null
BodyArrives(usable) ==
    /\ hpc = "awaitBody"
    /\ endpoint = "answers"
    /\ hresult' = IF usable THEN "fresh" ELSE StaleOrNone(hcache)
    /\ hcache' = IF usable THEN "fresh" ELSE hcache
    /\ hpc' = "returned"
    /\ UNCHANGED <<timer, hclock, endpoint>>
    /\ UNCHANGED <<coreVars, besidesHang>>

\* the timer runs out: controller.abort() makes the pending fetch reject
TimerFires ==
    /\ timer = "armed"
    /\ hclock = TimeoutSeconds
    /\ timer' = "fired"
    /\ IF hpc = "awaitHeaders"
       THEN hpc' = "returned" /\ hresult' = StaleOrNone(hcache)
       ELSE UNCHANGED <<hpc, hresult>>
    /\ UNCHANGED <<hclock, endpoint, hcache>>
    /\ UNCHANGED <<coreVars, besidesHang>>

\* a second passes while the call is suspended; an armed timer fires before
\* time goes beyond its delay
SecondPasses ==
    /\ hpc \in {"awaitHeaders", "awaitBody"}
    /\ hclock < MaxSeconds
    /\ ~(timer = "armed" /\ hclock = TimeoutSeconds)
    /\ hclock' = hclock + 1
    /\ UNCHANGED <<hpc, timer, endpoint, hcache, hresult>>
    /\ UNCHANGED <<coreVars, besidesHang>>

NextHang ==
    \/ SendRequest
    \/ FetchRejects
    \/ \E ok \in BOOLEAN : HeadersArrive(ok)
    \/ \E usable \in BOOLEAN : BodyArrives(usable)
    \/ TimerFires
    \/ SecondPasses

SpecHang == InitHang /\ [][NextHang]_vars

\* C20: when the endpoint stops responding, before the headers or while the
\* body is read, the call is over once the 5 seconds of the timer have
\* passed: it is never still suspended later than that.
C20_ReturnsWithinTimeout ==
    (endpoint \in {"hangs_before_headers", "hangs_in_body"} /\ hpc # "returned")
        => hclock <= TimeoutSeconds

(***************************************************************************)
(* SpecConfig: the account lists of config.json under glancebar auth --add *)
(* and --remove, and the accountIndex a render gives every account entry.  *)
(***************************************************************************)
Emails == {"a", "b"}

\* config.gmailAccounts.length > 0 ? config.gmailAccounts : config.accounts
EffectiveGmail(cfg) ==
    IF Len(cfg.gmailAccounts) > 0 THEN cfg.gmailAccounts ELSE cfg.accounts

\* loadConfig: legacy accounts are copied to gmailAccounts when that is empty
LoadAccounts(file) ==
    IF Len(file.accounts) > 0 /\ Len(file.gmailAccounts) = 0
    THEN [file EXCEPT !.gmailAccounts = file.accounts]
    ELSE file

\* getAllAccounts(config)
getAllAccountsOf(cfg) == EffectiveGmail(cfg) \o cfg.zohoAccounts

\* allAccounts.indexOf(account) in getGoogleEvents
GoogleAccountIndex(cfg, account) == IndexOf(getAllAccountsOf(cfg), account)

\* variant: the Zoho account is looked up by its email
ZohoAccountIndex_ByEmail(cfg, idx) ==
    IndexOf(getAllAccountsOf(cfg), cfg.zohoAccounts[idx + 1])

\* gmailCount + idx in getZohoEvents, idx counting from 0
ZohoAccountIndex(cfg, idx) == Len(EffectiveGmail(cfg)) + idx

\* array.splice(i, 1), i counting from 0
Splice(seq, i) == SubSeq(seq, 1, i) \o SubSeq(seq, i + 2, Len(seq))

\* glancebar auth --add: the file afterwards
AuthAdd(file, provider, email) ==
    LET cfg == LoadAccounts(file)
    IN IF provider = "google"
       THEN IF IndexOf(EffectiveGmail(cfg), email) # -1 THEN file
            ELSE [cfg EXCEPT !.gmailAccounts =
                     Append(IF Len(cfg.gmailAccounts) = 0 /\ Len(cfg.accounts) > 0
                            THEN cfg.accounts ELSE cfg.gmailAccounts, email)]
       ELSE IF IndexOf(cfg.zohoAccounts, email) # -1 THEN cfg
            ELSE [cfg EXCEPT !.zohoAccounts = Append(@, email)]

\* glancebar auth --remove: the file afterwards and the list it removed from
AuthRemove(file, email) ==
    LET cfg == LoadAccounts(file)
        googleIdx == IndexOf(EffectiveGmail(cfg), email)
        zohoIdx == IndexOf(cfg.zohoAccounts, email)
    IN IF googleIdx # -1
       THEN [ file |-> IF Len(cfg.gmailAccounts) > 0
                       THEN [cfg EXCEPT !.gmailAccounts = Splice(@, googleIdx)]
                       ELSE [cfg EXCEPT !.accounts = Splice(@, googleIdx)],
              removed |-> "google" ]
       ELSE IF zohoIdx # -1
       THEN [ file |-> [cfg EXCEPT !.zohoAccounts = Splice(@, zohoIdx)],
              removed |-> "zoho" ]
       ELSE [file |-> file, removed |-> "none"]

\* the accountIndex given to the events of every account entry in a render
IndexEntries(file) ==
    LET cfg == LoadAccounts(file)
        gmail == EffectiveGmail(cfg)
    IN [k \in 1..Len(gmail) |->
           [ provider |-> "google", position |-> k - 1, email |-> gmail[k],
             accountIndex |-> GoogleAccountIndex(cfg, gmail[k]) ]]
       \o [k \in 1..Len(cfg.zohoAccounts) |->
           [ provider |-> "zoho", position |-> k - 1, email |-> cfg.zohoAccounts[k],
             accountIndex |-> ZohoAccountIndex(cfg, k - 1) ]]

\* the lists over Emails without repetition
Lists == {<<>>} \cup {<<e>> : e \in Emails}
            \cup {l \in {<<e, f>> : e \in Emails, f \in Emails} : l[1] # l[2]}

InitConfig ==
    /\ configFile \in { [accounts |-> l, gmailAccounts |-> <<>>, zohoAccounts |-> <<>>] :
                           l \in Lists }
    /\ lastCmd = NoCall
    /\ indexed = <<>>
    /\ CoreIdle
    /\ GoogleIdle
    /\ IsolationIdle
    /\ TaskIdle
    /\ RenderIdle
    /\ HangIdle
    /\ ZoneIdle
    /\ RaceIdle
    /\ TwinIdle

Add(provider, email) ==
    /\ configFile' = AuthAdd(configFile, provider, email)
    /\ lastCmd' = [cmd |-> "add", email |-> email, removed |-> "none"]
    /\ UNCHANGED indexed
    /\ UNCHANGED <<earlierVars, besidesConfig>>

Remove(email) ==
    LET r == AuthRemove(configFile, email)
    IN /\ configFile' = r.file
       /\ lastCmd' = [cmd |-> "remove", email |-> email, removed |-> r.removed]
       /\ UNCHANGED indexed
       /\ UNCHANGED <<earlierVars, besidesConfig>>

\* one render: every configured account returns events
RenderEntries ==
    /\ indexed' = IndexEntries(configFile)
    /\ UNCHANGED <<configFile, lastCmd>>
    /\ UNCHANGED <<earlierVars, besidesConfig>>

NextConfig ==
    \/ \E provider \in {"google", "zoho"}, email \in Emails : Add(provider, email)
    \/ \E email \in Emails : Remove(email)
    \/ RenderEntries

SpecConfig == InitConfig /\ [][NextConfig]_vars

GoogleEntries == {k \in 1..Len(indexed) : indexed[k].provider = "google"}

\* C21: in a render the events of the Google account at position i carry
\* accountIndex i, those of the Zoho account at position j carry the number
\* of Google accounts plus j, and two account entries never share an index.
C21_IndexIsPosition ==
    /\ \A k \in 1..Len(indexed) :
          indexed[k].accountIndex =
              IF indexed[k].provider = "google" THEN indexed[k].position
              ELSE Cardinality(GoogleEntries) + indexed[k].position
    /\ \A k \in 1..Len(indexed), m \in 1..Len(indexed) :
          indexed[k].accountIndex = indexed[m].accountIndex => k = m

\* the same email is configured for both providers, behind another account
C21_Witness ==
    /\ Len(indexed) = 3
    /\ indexed[1].email = "b" /\ indexed[1].accountIndex = 0
    /\ indexed[2].provider = "google" /\ indexed[2].email = "a"
    /\ indexed[2].accountIndex = 1
    /\ indexed[3].provider = "zoho" /\ indexed[3].email = "a"
    /\ indexed[3].accountIndex = 2

\* C22: after a successful removal of a Google account, the Google account
\* list the next loadConfig yields does not contain that email.
C22_RemovedIsGone ==
    (lastCmd # NoCall /\ lastCmd.cmd = "remove" /\ lastCmd.removed = "google") =>
        \A k \in 1..Len(EffectiveGmail(LoadAccounts(configFile))) :
            EffectiveGmail(LoadAccounts(configFile))[k] # lastCmd.email


(***************************************************************************)
(* The cache entry written by a successful fetch (SpecCache).              *)
(***************************************************************************)
\* the entry a call starting at nowMs builds from the snapshot it fetched
FetchedEntry(outcome, nowMs) ==
    [data |-> fetchUsageLimitsFromAPI(outcome), fetchedAt |-> nowMs, ttl |-> ttlSeconds * 1000]

C29_WrittenOnlyByFetch ==
    [][ /\ cacheFile' # cacheFile =>
              (nCalls' = nCalls + 1 /\ call'.kind = "fetched" /\ call'.result # Null)
        /\ (nCalls' = nCalls + 1 /\ call'.kind # "fetched") => cacheFile' = cacheFile
        /\ cacheFile # NoFile =>
              (cacheFile' # NoFile /\ cacheFile'.fetchedAt >= cacheFile.fetchedAt)
        /\ cacheFile' # NoFile => cacheFile'.data # Null
      ]_vars

\* an expired entry survives a call whose fetch timed out and is replaced
\* by the next call, which fetches at a later instant
C29_Witness ==
    /\ TwoCalls
    /\ nCalls = 3
    /\ prevCall.kind = "timeout"
    /\ prevCall.before # NoFile
    /\ prevCall.now - prevCall.before.fetchedAt >= ttlSeconds * 1000
    /\ call.before = prevCall.before
    /\ call.kind = "fetched"
    /\ call.saved
    /\ cacheFile.fetchedAt = call.now
    /\ cacheFile.fetchedAt > call.before.fetchedAt
    /\ cacheFile.data # call.before.data

(***************************************************************************)
(* SpecZone: two Zoho timestamps of the form YYYYMMDDTHHmmss followed by   *)
(* Z, by a signed HHMM offset or by nothing, decoded by parseZohoDate.     *)
(***************************************************************************)
\* Date.UTC(year, month - 1, day, hour, min, sec) within one month, in minutes
DateUTC(m) == m.day * MinutesPerDay + m.hour * 60 + m.min

\* variant: the four offset digits read as one decimal number of minutes
TzMinutes_Decimal(m) == m.tzHour * 100 + m.tzMin

\* +tzHour * 60 + +tzMin
TzMinutes(m) == m.tzHour * 60 + m.tzMin

\* parseZohoDate on the groups the regular expression matched
parseZohoDateMatch(m, off) ==
    parseZohoDate([wall |-> DateUTC(m), tz |-> m.tz, off |-> TzMinutes(m)], off)

\* the zone suffixes the calendars send: Z, +0530, -0800, +0000, none
ZoneSuffixes ==
    { [tz |-> "Z", tzHour |-> 0, tzMin |-> 0],
      [tz |-> "+", tzHour |-> 5, tzMin |-> 30],
      [tz |-> "-", tzHour |-> 8, tzMin |-> 0],
      [tz |-> "+", tzHour |-> 0, tzMin |-> 0],
      [tz |-> "", tzHour |-> 0, tzMin |-> 0] }

Stamps ==
    { [day |-> d, hour |-> h, min |-> mi, tz |-> z.tz, tzHour |-> z.tzHour, tzMin |-> z.tzMin] :
        d \in 1..MaxDay, h \in {0, 5, 16, 21}, mi \in {0, 30}, z \in ZoneSuffixes }

InitZone ==
    /\ stamps = <<>>
    /\ decoded = NoCall
    /\ CoreIdle
    /\ GoogleIdle
    /\ IsolationIdle
    /\ TaskIdle
    /\ RenderIdle
    /\ HangIdle
    /\ ConfigIdle
    /\ RaceIdle
    /\ TwinIdle

\* the calendar answers with one more timestamp (an event's start or end)
ZohoSendsStamp(m) ==
    /\ decoded = NoCall
    /\ Len(stamps) < 2
    /\ stamps' = Append(stamps, m)
    /\ UNCHANGED decoded
    /\ UNCHANGED <<earlierVars, besidesZone>>

\* the map callback decodes start and end; the machine runs in UTC
DecodeStamps ==
    /\ decoded = NoCall
    /\ Len(stamps) = 2
    /\ decoded' = [instants |-> <<parseZohoDateMatch(stamps[1], 0),
                                    parseZohoDateMatch(stamps[2], 0)>>]
    /\ UNCHANGED stamps
    /\ UNCHANGED <<earlierVars, besidesZone>>

NextZone ==
    \/ \E m \in Stamps : ZohoSendsStamp(m)
    \/ DecodeStamps

SpecZone == InitZone /\ [][NextZone]_vars

\* minutes the zone of a timestamp is ahead of UTC
EastOfUTC(m) ==
    IF m.tz = "+" THEN m.tzHour * 60 + m.tzMin
    ELSE IF m.tz = "-" THEN 0 - (m.tzHour * 60 + m.tzMin)
    ELSE 0

\* the wall time of a timestamp read as if it were UTC, in minutes
WallAsUTC(m) == (m.day * 24 + m.hour) * 60 + m.min

Zoned(m) == m.tz \in {"Z", "+", "-"}

\* C26: a timestamp with Z decodes to its wall time read as UTC, one with
\* +HHMM to that minus the offset, one with -HHMM to that plus the offset;
\* two timestamps whose wall times differ by the difference of their zones
\* decode to the same instant.
C26_OffsetDecoding ==
    decoded # NoCall =>
        /\ \A k \in 1..2 :
              /\ stamps[k].tz = "Z" => decoded.instants[k] = WallAsUTC(stamps[k])
              /\ stamps[k].tz = "+" =>
                    decoded.instants[k] =
                        WallAsUTC(stamps[k]) - (stamps[k].tzHour * 60 + stamps[k].tzMin)
              /\ stamps[k].tz = "-" =>
                    decoded.instants[k] =
                        WallAsUTC(stamps[k]) + (stamps[k].tzHour * 60 + stamps[k].tzMin)
        /\ ( /\ Zoned(stamps[1])
              /\ Zoned(stamps[2])
              /\ WallAsUTC(stamps[1]) - WallAsUTC(stamps[2])
                     = EastOfUTC(stamps[1]) - EastOfUTC(stamps[2]) )
              => decoded.instants[1] = decoded.instants[2]

\* day 2 05:30 +0530 and day 1 16:00 -0800 are both day 2 00:00 UTC
C26_Witness ==
    /\ decoded # NoCall
    /\ stamps[1] = [day |-> 2, hour |-> 5, min |-> 30, tz |-> "+", tzHour |-> 5, tzMin |-> 30]
    /\ stamps[2] = [day |-> 1, hour |-> 16, min |-> 0, tz |-> "-", tzHour |-> 8, tzMin |-> 0]
    /\ decoded.instants[1] = 2 * MinutesPerDay
    /\ decoded.instants[2] = 2 * MinutesPerDay


(***************************************************************************)
(* SpecRace: two callers of refreshZohoToken for the same account, one     *)
(* step for the code up to the await of the token endpoint and one for     *)
(* the code after it. The callers are the event query and the task query   *)
(* of one render, or two separate invocations of the program.              *)
(***************************************************************************)
\* Date.now(); the callers overlap within the same instant
RaceNow == 0

Idle == [ pc |-> "idle", read |-> NoFile, n |-> 0, sent |-> 0, body |-> Missing,
          result |-> Null, wroteAt |-> 0 ]

\* variant: the write is dropped when the file is no longer what was read
WriteTokenFile_IfUnchanged(current, read, updatedToken) ==
    IF current = read THEN updatedToken ELSE current

\* writeFileSync(tokenPath, JSON.stringify(updatedToken, null, 2))
WriteTokenFile(current, read, updatedToken) == updatedToken

InitRace ==
    /\ raceMode \in {"render", "invocations"}
    /\ raceFile \in {NoFile} \cup {GrantedToken(k) : k \in 2..3}
    /\ caller = [c \in 1..2 |-> Idle]
    /\ exchanges = 0
    /\ writes = 0
    /\ CoreIdle
    /\ GoogleIdle
    /\ IsolationIdle
    /\ TaskIdle
    /\ RenderIdle
    /\ HangIdle
    /\ ConfigIdle
    /\ ZoneIdle
    /\ TwinIdle

\* refreshZohoToken from its first statement to the await of fetch: within
\* one render getZohoEvents is called before getZohoTasks
EnterRefresh(c, credsExist) ==
    /\ caller[c].pc = "idle"
    /\ (raceMode = "render" /\ c = 2) => caller[1].pc # "idle"
    /\ IF raceFile = NoFile \/ StillValid(raceFile, RaceNow) \/ ~credsExist
       THEN /\ caller' =
                  [caller EXCEPT ![c] =
                      [@ EXCEPT !.pc = "done", !.read = raceFile,
                                !.result = IF raceFile # NoFile /\ StillValid(raceFile, RaceNow)
                                           THEN raceFile ELSE Null]]
            /\ UNCHANGED exchanges
       ELSE /\ caller' =
                  [caller EXCEPT ![c] =
                      [@ EXCEPT !.pc = "awaiting", !.read = raceFile,
                                !.n = exchanges + 1, !.sent = 1]]
            /\ exchanges' = exchanges + 1
    /\ UNCHANGED <<raceMode, raceFile, writes>>
    /\ UNCHANGED <<earlierVars, besidesRace>>

\* refreshZohoToken from the answer of the token endpoint to its return;
\* within one render no answer is handled before both queries have started
AnswerRefresh(c, outcome) ==
    LET r == refreshZohoToken(caller[c].read, TRUE, RaceNow, RaceNow, outcome)
    IN /\ caller[c].pc = "awaiting"
       /\ raceMode = "render" => \A d \in 1..2 : caller[d].pc # "idle"
       /\ raceFile' = IF r.wrote THEN WriteTokenFile(raceFile, caller[c].read, r.file)
                      ELSE raceFile
       /\ writes' = IF r.wrote THEN writes + 1 ELSE writes
       /\ caller' =
             [caller EXCEPT ![c] =
                 [@ EXCEPT !.pc = "done", !.result = r.result,
                           !.body = IF r.wrote THEN outcome.body ELSE Missing,
                           !.wroteAt = IF r.wrote THEN writes + 1 ELSE 0]]
       /\ UNCHANGED <<raceMode, exchanges>>
       /\ UNCHANGED <<earlierVars, besidesRace>>

NextRace ==
    \/ \E c \in 1..2, credsExist \in BOOLEAN : EnterRefresh(c, credsExist)
    \/ \E c \in 1..2 : \E o \in RefreshOutcomes(caller[c].n) : AnswerRefresh(c, o)

SpecRace == InitRace /\ [][NextRace]_vars

\* the record caller c read was expired
ReadExpired(c) ==
    /\ caller[c].read # NoFile
    /\ \A v \in caller[c].read.expires_at : v <= RaceNow + BufferMs

\* C27: with two overlapping invocations nothing orders the reads and the
\* writes of the token file: a caller that has sent a refresh exchange did
\* so on an expired record, and after every write the file holds the
\* latest writer's own answer laid over the record that writer read when it
\* started, whatever the other invocation wrote in between. With both
\* invocations reading the same expired record, both exchange and the later
\* write replaces the earlier one's token and expiry (C27_Witness).
C27_LastWriteWins ==
    raceMode = "invocations" =>
        /\ \A c \in 1..2 : caller[c].sent = 1 => ReadExpired(c)
        /\ writes > 0 =>
              \E c \in 1..2 :
                  /\ caller[c].wroteAt = writes
                  /\ raceFile.access_token = caller[c].body.access_token
                  /\ raceFile.expires_at =
                        {RaceNow + v * 1000 : v \in caller[c].body.expires_in}
                  /\ raceFile.refresh_token = caller[c].read.refresh_token
                  /\ raceFile.api_domain = caller[c].read.api_domain

\* both invocations read the same expired record and exchange; the answer
\* to the first exchange is written last and replaces the token of the
\* second exchange
C27_Witness ==
    /\ raceMode = "invocations"
    /\ \A c \in 1..2 : caller[c].pc = "done" /\ caller[c].sent = 1 /\ ReadExpired(c)
    /\ caller[1].read = caller[2].read
    /\ exchanges = 2
    /\ writes = 2
    /\ caller[1].n = 2 /\ caller[1].wroteAt = 1
    /\ caller[2].n = 1 /\ caller[2].wroteAt = 2
    /\ caller[1].result.access_token = {2}
    /\ raceFile.access_token = {1}
    /\ raceFile = caller[2].result

\* C28: within one render at most one refresh exchange is sent and at most
\* one write is made to the token file of the account.
C28_OneRefreshPerRender ==
    raceMode = "render" => (exchanges <= 1 /\ writes <= 1)


(***************************************************************************)
(* SpecTwin: two runs of the program over cache files that differ only in  *)
(* the ttl field of the entry, making the same getUsageLimits calls at the *)
(* same instants, with the same configuration and the same outcomes of     *)
(* the fetch and of the cache write.                                       *)
(***************************************************************************)
\* the ttl fields earlier configurations have left in the entry, in ms
StoredTtls == {30 * 1000, 60 * 1000, 120 * 1000}

Snapshots == {fetchUsageLimitsFromAPI(o) : o \in Outcomes} \ {Null}

InitTwin ==
    /\ twinFiles \in
          { <<[data |-> d, fetchedAt |-> 0, ttl |-> t1], [data |-> d, fetchedAt |-> 0, ttl |-> t2]>> :
              d \in Snapshots, t1 \in StoredTtls, t2 \in StoredTtls }
    /\ twinFiles[1].ttl # twinFiles[2].ttl
    /\ twinCall = <<>>
    /\ twinClock = 0
    /\ twinCalls = 0
    /\ twinTtl \in TtlChoices
    /\ CoreIdle
    /\ GoogleIdle
    /\ IsolationIdle
    /\ TaskIdle
    /\ RenderIdle
    /\ HangIdle
    /\ ConfigIdle
    /\ ZoneIdle
    /\ RaceIdle

\* both runs call getUsageLimits
TwinGetUsageLimits(outcome, writeOk) ==
    LET r == [k \in 1..2 |-> getUsageLimits(twinFiles[k], twinClock, twinTtl, outcome, writeOk)]
    IN /\ twinCalls < MaxCalls
       /\ twinCalls' = twinCalls + 1
       /\ twinFiles' = <<r[1].file, r[2].file>>
       /\ twinCall' =
             [k \in 1..2 |->
                 [ result |-> r[k].result, kind |-> r[k].kind, net |-> r[k].net,
                   total |-> r[k].net + IF twinCall = <<>> THEN 0 ELSE twinCall[k].total ]]
       /\ UNCHANGED <<twinClock, twinTtl>>
       /\ UNCHANGED <<earlierVars, besidesTwin>>

\* time passes in both runs
TwinTick ==
    /\ twinClock + TickMs <= MaxTicks * TickMs
    /\ twinClock' = twinClock + TickMs
    /\ UNCHANGED <<twinFiles, twinCall, twinCalls, twinTtl>>
    /\ UNCHANGED <<earlierVars, besidesTwin>>

NextTwin ==
    \/ \E o \in Outcomes, w \in BOOLEAN : TwinGetUsageLimits(o, w)
    \/ TwinTick

SpecTwin == InitTwin /\ [][NextTwin]_vars

\* C30: the two runs return the same value from every call and have sent
\* the same number of requests, in the call and in total; their files
\* never differ in anything but the ttl field.
C30_StoredTtlIgnored ==
    /\ twinFiles # <<>> =>
          /\ twinFiles[1].data = twinFiles[2].data
          /\ twinFiles[1].fetchedAt = twinFiles[2].fetchedAt
    /\ twinCall # <<>> =>
          /\ twinCall[1].result = twinCall[2].result
          /\ twinCall[1].net = twinCall[2].net
          /\ twinCall[1].total = twinCall[2].total
          /\ twinCall[1].kind = twinCall[2].kind

\* the entry is 90 s old while the configured TTL is 60 s: the stored ttl
\* of one run is above the age, that of the other is not, and both runs
\* send the request, which times out
C30_Witness ==
    /\ twinCall # <<>>
    /\ twinTtl = 60
    /\ twinClock = 3 * TickMs
    /\ twinFiles[1].fetchedAt = 0
    /\ twinFiles[1].ttl > twinClock
    /\ twinFiles[2].ttl <= twinClock
    /\ twinCall[1].kind = "timeout"
    /\ twinCall[1].total = 1
    /\ twinCall[2].total = 1
    /\ twinCall[1].result = twinFiles[1].data

=============================================================================
